---------------------------- MODULE Spec2Model ----------------------------
(***************************************************************************)
(* Model of the definition-driven code generator of mcp-go-gh              *)
(* (tools/gen): the definition loader (parser.go), the code generator      *)
(* (codegen.go) and the registration handlers it emits.                    *)
(*                                                                         *)
(* Strings are sequences of one-character strings, so that the naming      *)
(* transforms are computed character by character as the Go code does.     *)
(***************************************************************************)
EXTENDS Integers, Sequences, FiniteSets, TLC

VARIABLES
    dir,          \* the definitions directory: [exists, entries]
    lpc,          \* ParseDefinitions: position ("start", "loop", "done")
    files,        \* ParseDefinitions: result of filepath.Glob
    idx,          \* ParseDefinitions: loop index into files
    definitions,  \* ParseDefinitions: the local slice being appended to
    ret,          \* ParseDefinitions: the returned ([]CommandDefinition, error)
    defsIn,       \* GenerateCode: the definitions argument
    outDir,       \* GenerateCode: the output directory, [creatable]
    fs,           \* the files of the output directory, name -> content
    gpc,          \* GenerateCode: position ("start", "commands", "done")
    gi,           \* GenerateCode: loop index into definitions
    gret,         \* GenerateCode: the returned error
    written,      \* the os.WriteFile calls that succeeded, in order
    warnings,     \* the formatting warnings printed on standard error
    hfn,          \* generated handler: the subcommand it was generated from
    hargs,        \* generated handler: the args struct, field name -> value
    cmd,          \* generated handler: the token slice being built
    hpc,          \* generated handler: position ("start", "positional", "flags",
                  \*   "execute", "done")
    hk,           \* generated handler: index of the next statement of the position
    hexec,        \* what exec.Execute was called with and what it returned
    hret,         \* generated handler: what it returned to its caller
    fin,          \* a template function under test: its argument
    fout,         \* a template function under test: what it returned
    fpc,          \* a template function under test: position ("call", "done")
    mpc,          \* main: position ("resolve", "parse", "generate", "exited")
    resolves,     \* main: how filepath.Abs goes for the two paths
    stdout,       \* main: the lines it printed on standard output
    stderr,       \* main: the lines it printed on standard error
    exit,         \* main: the exit status, once exited
    runs,         \* how many times the tool has been started
    prev,         \* the output directory and the writes of the run before
    timeout,      \* Executor: the timeout field, in minutes
    xpc,          \* Executor: position ("new", "ready", "running", "returned",
                  \*   "no gh")
    xargs,        \* Execute: the args it was called with
    ctx,          \* Execute: the derived context, [cancelled, deadline, fired]
    clock,        \* Execute: minutes since the call began
    proc,         \* Execute: the gh process, [state, exit, stdout, stderr]
    logger,       \* Executor: the records handed to the logger, in order
    xret,         \* Execute: the returned (*Result, error)
    ncalls        \* how many times Execute was called

loadVars == <<dir, lpc, files, idx, definitions, ret>>
genVars == <<defsIn, outDir, fs, gpc, gi, gret, written, warnings>>
callVars == <<hfn, hargs, cmd, hpc, hk, hexec, hret>>
fnVars == <<fin, fout, fpc>>
mainVars == <<mpc, resolves, stdout, stderr, exit, runs, prev>>
execVars == <<timeout, xpc, xargs, ctx, clock, proc, logger, xret, ncalls>>
vars == <<loadVars, genVars, callVars, fnVars, mainVars, execVars>>

---------------------------------------------------------------------------
(* Bounds of the model *)

MaxFiles == 3
MaxDefs == 2

---------------------------------------------------------------------------
(* String literals used by the program and by the inputs *)

S_empty == <<>>
S_string == <<"s","t","r","i","n","g">>
S_integer == <<"i","n","t","e","g","e","r">>
S_boolean == <<"b","o","o","l","e","a","n">>
S_array == <<"a","r","r","a","y">>
S_map == <<"m","a","p">>
S_true == <<"t","r","u","e">>
S_false == <<"f","a","l","s","e">>
S_pr == <<"p","r">>
S_issue == <<"i","s","s","u","e">>
S_list == <<"l","i","s","t">>
S_create == <<"c","r","e","a","t","e">>
S_limit == <<"l","i","m","i","t">>
S_json == <<"j","s","o","n">>
S_name == <<"n","a","m","e">>
S_force == <<"f","o","r","c","e">>
S_flagLimit == <<"-","-","l","i","m","i","t">>
S_flagJson == <<"-","-","j","s","o","n">>
S_flagForce == <<"-","-","f","o","r","c","e">>

---------------------------------------------------------------------------
(* types.go: the definition model *)

\* Parameter{} zero value (types.go:18-28)
ZeroParameter ==
    [Name |-> S_empty, Type |-> S_empty, ItemType |-> S_empty, Flag |-> S_empty,
     Short |-> S_empty, Description |-> S_empty, Required |-> FALSE,
     Positional |-> FALSE, Enum |-> <<>>]

\* Subcommand{} zero value (types.go:11-15)
ZeroSubcommand ==
    [Name |-> S_empty, Description |-> S_empty, Parameters |-> <<>>]

\* CommandDefinition{} zero value (types.go:4-8)
ZeroDefinition ==
    [Command |-> S_empty, Description |-> S_empty, Subcommands |-> <<>>]

---------------------------------------------------------------------------
(* YAML documents: a node is a null, a scalar, a sequence or a mapping;     *)
(* a mapping is an ordered list of key/value pairs.                        *)

YNull == [tag |-> "null", str |-> <<>>, items |-> <<>>, map |-> <<>>]
YScalar(s) == [tag |-> "scalar", str |-> s, items |-> <<>>, map |-> <<>>]
YSeq(xs) == [tag |-> "seq", str |-> <<>>, items |-> xs, map |-> <<>>]
YMap(ps) == [tag |-> "map", str |-> <<>>, items |-> <<>>, map |-> ps]
KV(k, v) == [k |-> k, v |-> v]

HasKey(node, key) == \E i \in DOMAIN node.map : node.map[i].k = key
Lookup(node, key) ==
    node.map[CHOOSE i \in DOMAIN node.map :
                 /\ node.map[i].k = key
                 /\ \A j \in DOMAIN node.map : node.map[j].k = key => i <= j].v

\* yaml.Unmarshal into a string field: absent or null keeps the zero value
DecodeString(node, key) ==
    IF HasKey(node, key) /\ Lookup(node, key).tag = "scalar"
    THEN Lookup(node, key).str ELSE S_empty

\* yaml.Unmarshal into a bool field
DecodeBool(node, key) ==
    HasKey(node, key) /\ Lookup(node, key).tag = "scalar" /\ Lookup(node, key).str = S_true

\* yaml.Unmarshal into a []string field
DecodeStrings(node, key) ==
    IF HasKey(node, key) /\ Lookup(node, key).tag = "seq"
    THEN [i \in DOMAIN Lookup(node, key).items |-> Lookup(node, key).items[i].str]
    ELSE <<>>

\* the items of a sequence-valued key, none when the key is absent or null
SeqItems(node, key) ==
    IF HasKey(node, key) /\ Lookup(node, key).tag = "seq"
    THEN Lookup(node, key).items ELSE <<>>

\* a key that is present must hold a value of the field's kind
ScalarOK(node, key) == HasKey(node, key) => Lookup(node, key).tag \in {"scalar", "null"}
BoolOK(node, key) ==
    HasKey(node, key) =>
        \/ Lookup(node, key).tag = "null"
        \/ Lookup(node, key).tag = "scalar" /\ Lookup(node, key).str \in {S_true, S_false}
SeqOK(node, key) == HasKey(node, key) => Lookup(node, key).tag \in {"seq", "null"}

ParameterShapeOK(n) ==
    /\ n.tag \in {"map", "null"}
    /\ \A k \in {"name", "type", "item_type", "flag", "short", "description"} : ScalarOK(n, k)
    /\ BoolOK(n, "required") /\ BoolOK(n, "positional")
    /\ SeqOK(n, "enum")
    /\ \A i \in DOMAIN SeqItems(n, "enum") : SeqItems(n, "enum")[i].tag \in {"scalar", "null"}

SubcommandShapeOK(n) ==
    /\ n.tag \in {"map", "null"}
    /\ ScalarOK(n, "name") /\ ScalarOK(n, "description")
    /\ SeqOK(n, "parameters")
    /\ \A i \in DOMAIN SeqItems(n, "parameters") : ParameterShapeOK(SeqItems(n, "parameters")[i])

DefinitionShapeOK(n) ==
    /\ n.tag \in {"map", "null"}
    /\ ScalarOK(n, "command") /\ ScalarOK(n, "description")
    /\ SeqOK(n, "subcommands")
    /\ \A i \in DOMAIN SeqItems(n, "subcommands") : SubcommandShapeOK(SeqItems(n, "subcommands")[i])

DecodeParameter(n) ==
    [Name |-> DecodeString(n, "name"), Type |-> DecodeString(n, "type"),
     ItemType |-> DecodeString(n, "item_type"), Flag |-> DecodeString(n, "flag"),
     Short |-> DecodeString(n, "short"), Description |-> DecodeString(n, "description"),
     Required |-> DecodeBool(n, "required"), Positional |-> DecodeBool(n, "positional"),
     Enum |-> DecodeStrings(n, "enum")]

DecodeSubcommand(n) ==
    [Name |-> DecodeString(n, "name"), Description |-> DecodeString(n, "description"),
     Parameters |-> [i \in DOMAIN SeqItems(n, "parameters") |->
                        DecodeParameter(SeqItems(n, "parameters")[i])]]

DecodeDefinition(n) ==
    [Command |-> DecodeString(n, "command"), Description |-> DecodeString(n, "description"),
     Subcommands |-> [i \in DOMAIN SeqItems(n, "subcommands") |->
                         DecodeSubcommand(SeqItems(n, "subcommands")[i])]]

---------------------------------------------------------------------------
(* The definition files the loader is run on *)

ParamLimitDoc ==
    YMap(<<KV("name", YScalar(S_limit)), KV("type", YScalar(S_integer)),
           KV("flag", YScalar(S_flagLimit))>>)
ParamJsonDoc ==
    YMap(<<KV("name", YScalar(S_json)), KV("type", YScalar(S_array)),
           KV("item_type", YScalar(S_string)), KV("flag", YScalar(S_flagJson)),
           KV("enum", YSeq(<<YScalar(S_name), YScalar(S_limit)>>))>>)
ParamNameDoc ==
    YMap(<<KV("name", YScalar(S_name)), KV("type", YScalar(S_string)),
           KV("positional", YScalar(S_true)), KV("required", YScalar(S_true))>>)
ParamForceDoc ==
    YMap(<<KV("nested", YMap(<<KV("deeply", YScalar(S_true))>>)),
           KV("name", YScalar(S_force)), KV("type", YScalar(S_boolean)),
           KV("flag", YScalar(S_flagForce)), KV("required", YScalar(S_false))>>)

\* command: pr, two subcommands with two parameters each
DocPr ==
    YMap(<<KV("command", YScalar(S_pr)), KV("description", YScalar(S_list)),
           KV("subcommands", YSeq(<<
               YMap(<<KV("name", YScalar(S_list)),
                      KV("parameters", YSeq(<<ParamLimitDoc, ParamJsonDoc>>))>>),
               YMap(<<KV("name", YScalar(S_create)),
                      KV("parameters", YSeq(<<ParamNameDoc, ParamForceDoc>>))>>)>>))>>)

\* command: issue, an unknown top-level key, one subcommand whose parameters
\* are declared flag first, positional second
DocIssue ==
    YMap(<<KV("version", YScalar(S_true)), KV("command", YScalar(S_issue)),
           KV("subcommands", YSeq(<<
               YMap(<<KV("name", YScalar(S_create)),
                      KV("parameters", YSeq(<<ParamForceDoc, ParamNameDoc>>))>>)>>))>>)

\* subcommands: [] (parser_error_test.go:204)
DocNoSubs ==
    YMap(<<KV("command", YScalar(S_list)), KV("subcommands", YSeq(<<>>))>>)

\* valid YAML of the wrong shape: subcommands is a scalar
DocMismatch ==
    YMap(<<KV("command", YScalar(S_pr)), KV("subcommands", YScalar(S_list))>>)

\* what a file holds: bytes that are YAML or not, and the document they spell
ContentUniverse ==
    { [syntaxOK |-> FALSE, root |-> YNull],     \* broken YAML syntax
      [syntaxOK |-> TRUE, root |-> YNull],      \* the empty file
      [syntaxOK |-> TRUE, root |-> DocPr],
      [syntaxOK |-> TRUE, root |-> DocIssue],
      [syntaxOK |-> TRUE, root |-> DocNoSubs],
      [syntaxOK |-> TRUE, root |-> DocMismatch] }

FileUniverse ==
    { [ext |-> "yaml", readable |-> TRUE, content |-> c] : c \in ContentUniverse }
    \cup { [ext |-> "yaml", readable |-> FALSE, content |-> [syntaxOK |-> TRUE, root |-> DocPr]] }
    \cup { [ext |-> "txt", readable |-> TRUE, content |-> c] :
              c \in { [syntaxOK |-> FALSE, root |-> YNull], [syntaxOK |-> TRUE, root |-> DocPr] } }

\* File names are 1..MaxFiles, ordered as their spellings are ordered.  The
\* directory path holds no glob metacharacter, so the pattern dir/*.yaml is
\* well formed and selects files of this directory only.
FileNames == 1..MaxFiles

DirUniverse ==
    { [exists |-> FALSE, entries |-> <<>>] }
    \cup { [exists |-> TRUE, entries |-> e] :
              e \in UNION { [S -> FileUniverse] : S \in SUBSET FileNames } }

---------------------------------------------------------------------------
(* parser.go *)

RECURSIVE SortedSeq(_)
SortedSeq(S) ==
    IF S = {} THEN <<>>
    ELSE LET m == CHOOSE x \in S : \A y \in S : x <= y
         IN <<m>> \o SortedSeq(S \ {m})

\* a glob pattern "*" in place of "*.yaml": every file of the directory
Glob_AnyExtension(d) ==
    IF d.exists THEN SortedSeq(DOMAIN d.entries) ELSE <<>>

\* filepath.Glob(filepath.Join(dir, "*.yaml")): the matching names, sorted;
\* a directory that cannot be listed gives no match and no error
Glob(d) ==
    IF d.exists
    THEN SortedSeq({n \in DOMAIN d.entries : d.entries[n].ext = "yaml"})
    ELSE <<>>

NoError == [isNil |-> TRUE, msg |-> "", file |-> 0, cause |-> ""]

\* yaml.Unmarshal(data, &def)
Unmarshal(content) ==
    IF ~content.syntaxOK \/ ~DefinitionShapeOK(content.root)
    THEN [ok |-> FALSE, def |-> ZeroDefinition]
    ELSE [ok |-> TRUE, def |-> DecodeDefinition(content.root)]

\* parseDefinitionFile(path): (CommandDefinition, error)
parseDefinitionFile(d, path) ==
    IF ~d.entries[path].readable
    THEN [def |-> ZeroDefinition, err |-> "failed to read file"]
    ELSE IF ~Unmarshal(d.entries[path].content).ok
         THEN [def |-> ZeroDefinition, err |-> "failed to unmarshal YAML"]
         ELSE [def |-> Unmarshal(d.entries[path].content).def, err |-> ""]

\* returning the definitions decoded so far together with the error
ParseErrorReturn_Partial(defs, file, cause) ==
    [defs |-> defs,
     err |-> [isNil |-> FALSE, msg |-> "failed to parse", file |-> file, cause |-> cause]]

\* return nil, fmt.Errorf("failed to parse %s: %w", file, err)
ParseErrorReturn(defs, file, cause) ==
    [defs |-> <<>>,
     err |-> [isNil |-> FALSE, msg |-> "failed to parse", file |-> file, cause |-> cause]]

\* prepending instead of appending
AppendDefinition_Prepend(defs, def) == <<def>> \o defs

\* definitions = append(definitions, def)
AppendDefinition(defs, def) == Append(defs, def)

NoReturn == [defs |-> <<>>, err |-> NoError]

\* the generator is idle while the loader is looked at
GenIdle ==
    /\ defsIn = <<>>
    /\ outDir = [creatable |-> FALSE, before |-> <<>>]
    /\ fs = <<>>
    /\ gpc = "idle"
    /\ gi = 1
    /\ gret = [isNil |-> TRUE, msg |-> "", command |-> <<>>]
    /\ written = <<>>
    /\ warnings = <<>>

\* executor.Result{} and a nil error
ZeroResult == [Stdout |-> "", Stderr |-> "", ExitCode |-> 0]
NilError == [isNil |-> TRUE, exit |-> 0, stderr |-> ""]

\* exec.Execute has not been called; the handler has not returned
NoExecution == [called |-> FALSE, argv |-> <<>>, result |-> ZeroResult, err |-> NilError]
NoHandlerReturn == [returned |-> FALSE, result |-> ZeroResult, err |-> NilError]

\* no generated handler runs while the generator tool itself is looked at
CallIdle ==
    /\ hfn = [command |-> S_empty, sub |-> ZeroSubcommand]
    /\ hargs = <<>>
    /\ cmd = <<>>
    /\ hpc = "idle"
    /\ hk = 1
    /\ hexec = NoExecution
    /\ hret = NoHandlerReturn

\* no template function is called on its own
FnIdle ==
    /\ fin = <<>>
    /\ fout = <<>>
    /\ fpc = "idle"

\* no earlier run to compare with
NoPrev == [fs |-> <<>>, written |-> <<>>]

\* main is not running: ParseDefinitions or GenerateCode is called directly
MainIdle ==
    /\ mpc = "idle"
    /\ resolves = "ok"
    /\ stdout = <<>>
    /\ stderr = <<>>
    /\ exit = 0
    /\ runs = 0
    /\ prev = NoPrev

NoContext == [cancelled |-> FALSE, deadline |-> 0, fired |-> FALSE]
NoProcess == [state |-> "none", exit |-> 0, stdout |-> "", stderr |-> ""]
NoResult == [isNil |-> TRUE, result |-> ZeroResult, err |-> NilError]

ExecIdle ==
    /\ timeout = 0
    /\ xpc = "idle"
    /\ xargs = <<>>
    /\ ctx = NoContext
    /\ clock = 0
    /\ proc = NoProcess
    /\ logger = <<>>
    /\ xret = NoResult
    /\ ncalls = 0

LoadInit ==
    /\ GenIdle
    /\ CallIdle
    /\ FnIdle
    /\ MainIdle
    /\ ExecIdle
    /\ dir \in DirUniverse
    /\ lpc = "start"
    /\ files = <<>>
    /\ idx = 1
    /\ definitions = <<>>
    /\ ret = NoReturn

\* parser.go:13-18
GlobFiles ==
    /\ lpc = "start"
    /\ files' = Glob(dir)
    /\ lpc' = "loop"
    /\ UNCHANGED <<dir, idx, definitions, ret>>

\* parser.go:20-26, one iteration that appends
ParseNextFile ==
    /\ lpc = "loop"
    /\ idx <= Len(files)
    /\ parseDefinitionFile(dir, files[idx]).err = ""
    /\ definitions' = AppendDefinition(definitions, parseDefinitionFile(dir, files[idx]).def)
    /\ idx' = idx + 1
    /\ UNCHANGED <<dir, lpc, files, ret>>

\* parser.go:21-24, the iteration that fails
ParseFileFails ==
    /\ lpc = "loop"
    /\ idx <= Len(files)
    /\ parseDefinitionFile(dir, files[idx]).err # ""
    /\ ret' = ParseErrorReturn(definitions, files[idx], parseDefinitionFile(dir, files[idx]).err)
    /\ lpc' = "done"
    /\ UNCHANGED <<dir, files, idx, definitions>>

\* parser.go:28
ReturnDefinitions ==
    /\ lpc = "loop"
    /\ idx > Len(files)
    /\ ret' = [defs |-> definitions, err |-> NoError]
    /\ lpc' = "done"
    /\ UNCHANGED <<dir, files, idx, definitions>>

LoadNext ==
    \/ GlobFiles /\ UNCHANGED <<genVars, callVars, fnVars, mainVars, execVars>>
    \/ ParseNextFile /\ UNCHANGED <<genVars, callVars, fnVars, mainVars, execVars>>
    \/ ParseFileFails /\ UNCHANGED <<genVars, callVars, fnVars, mainVars, execVars>>
    \/ ReturnDefinitions /\ UNCHANGED <<genVars, callVars, fnVars, mainVars, execVars>>

SpecLoad == LoadInit /\ [][LoadNext]_vars

---------------------------------------------------------------------------
(* Properties of the loader *)

YamlFiles(d) == IF d.exists THEN {n \in DOMAIN d.entries : d.entries[n].ext = "yaml"} ELSE {}

\* a *.yaml file that cannot be read or cannot be decoded
Undecodable(f) ==
    \/ ~f.readable
    \/ ~f.content.syntaxOK
    \/ ~DefinitionShapeOK(f.content.root)

BadYamlFiles(d) == {n \in YamlFiles(d) : Undecodable(d.entries[n])}

\* the i-th *.yaml file of the directory in listing (name) order
NthYamlFile(d, i) ==
    CHOOSE n \in YamlFiles(d) : Cardinality({m \in YamlFiles(d) : m <= n}) = i

\* the text a mapping node declares under a key ("" when it declares none)
Declared(node, key) ==
    IF \E i \in DOMAIN node.map : node.map[i].k = key /\ node.map[i].v.tag = "scalar"
    THEN (CHOOSE v \in {node.map[i].v : i \in {j \in DOMAIN node.map : node.map[j].k = key}} : TRUE).str
    ELSE <<>>

---------------------------------------------------------------------------
(* codegen.go: naming transforms, type mapping and parameter filters *)

S_Register == <<"R","e","g","i","s","t","e","r">>
S_Tool == <<"T","o","o","l">>
S_Args == <<"A","r","g","s">>
S_genGo == <<"_","g","e","n",".","g","o">>
S_registry == <<"r","e","g","i","s","t","r","y">>
S_int == <<"i","n","t">>
S_bool == <<"b","o","o","l">>
S_slice == <<"[","]">>
S_mapStringString == <<"m","a","p","[","s","t","r","i","n","g","]","s","t","r","i","n","g">>

Lower == <<"a","b","c","d","e","f","g","h","i","j","k","l","m",
           "n","o","p","q","r","s","t","u","v","w","x","y","z">>
Upper == <<"A","B","C","D","E","F","G","H","I","J","K","L","M",
           "N","O","P","Q","R","S","T","U","V","W","X","Y","Z">>

\* strings.ToUpper on an ASCII byte
ToUpper(c) ==
    IF \E i \in DOMAIN Lower : Lower[i] = c
    THEN Upper[CHOOSE i \in DOMAIN Lower : Lower[i] = c]
    ELSE c

\* strings.ToLower on an ASCII byte
ToLower(c) ==
    IF \E i \in DOMAIN Upper : Upper[i] = c
    THEN Lower[CHOOSE i \in DOMAIN Upper : Upper[i] = c]
    ELSE c

\* A Go string is a sequence of bytes.  An ASCII byte is written as its
\* character; the bytes from 0x80 on that occur here are written by value:
\* C3 A9 is the UTF-8 encoding of e-acute, C3 89 of E-acute, EF BF BD of
\* U+FFFD.
HighBytes == {"0xC3", "0xA9", "0x89", "0xEF", "0xBF", "0xBD"}
RuneError == <<"0xEF", "0xBF", "0xBD">>

\* utf8.DecodeRuneInString: the number of bytes of the first character of a
\* non-empty string; a byte that starts no valid encoding counts as one
RuneWidth(s) ==
    IF s[1] \notin HighBytes THEN 1
    ELSE IF Len(s) >= 2 /\ s[1] = "0xC3" /\ s[2] \in {"0xA9", "0x89"} THEN 2
    ELSE IF Len(s) >= 3 /\ SubSeq(s, 1, 3) = RuneError THEN 3
    ELSE 1

\* strings.ToUpper(s), strings.Map(unicode.ToUpper, s): character by
\* character; a byte that is no valid encoding is written as U+FFFD
RECURSIVE ToUpperString(_)
ToUpperString(s) ==
    IF s = <<>> THEN <<>>
    ELSE LET w == RuneWidth(s)
         IN (IF s[1] \notin HighBytes THEN <<ToUpper(s[1])>>
             ELSE IF w = 2 THEN <<"0xC3", "0x89">>
             ELSE RuneError)
            \o ToUpperString(SubSeq(s, w + 1, Len(s)))

\* strings.ToLower(s), strings.Map(unicode.ToLower, s)
RECURSIVE ToLowerString(_)
ToLowerString(s) ==
    IF s = <<>> THEN <<>>
    ELSE LET w == RuneWidth(s)
         IN (IF s[1] \notin HighBytes THEN <<ToLower(s[1])>>
             ELSE IF w = 2 THEN <<"0xC3", "0xA9">>
             ELSE RuneError)
            \o ToLowerString(SubSeq(s, w + 1, Len(s)))

\* strings.ReplaceAll(s, old, new) for one-character old and new
ReplaceAll(s, old, new) == [i \in DOMAIN s |-> IF s[i] = old THEN new ELSE s[i]]

\* strings.Split(s, sep) for a one-character sep: always at least one part
RECURSIVE Split(_, _)
Split(s, sep) ==
    IF \A i \in DOMAIN s : s[i] # sep
    THEN <<s>>
    ELSE LET i == CHOOSE k \in DOMAIN s : s[k] = sep /\ \A j \in 1..(k-1) : s[j] # sep
         IN <<SubSeq(s, 1, i - 1)>> \o Split(SubSeq(s, i + 1, Len(s)), sep)

\* strings.Join(parts, "")
RECURSIVE Join(_)
Join(parts) == IF parts = <<>> THEN <<>> ELSE Head(parts) \o Join(Tail(parts))

\* splitting on '_' only: hyphens are left in place
toTitle_UnderscoreOnly(s) ==
    LET parts == Split(s, "_")
    IN Join([i \in DOMAIN parts |->
                IF Len(parts[i]) > 0
                THEN <<ToUpper(parts[i][1])>> \o SubSeq(parts[i], 2, Len(parts[i]))
                ELSE parts[i]])

\* toTitle (codegen.go): part[:1] is the first byte of the part
toTitle(s) ==
    LET parts == Split(ReplaceAll(s, "-", "_"), "_")
    IN Join([i \in DOMAIN parts |->
                IF Len(parts[i]) > 0
                THEN ToUpperString(SubSeq(parts[i], 1, 1))
                        \o SubSeq(parts[i], 2, Len(parts[i]))
                ELSE parts[i]])

\* toCamel (codegen.go): title[:1] is the first byte of the title
toCamel(s) ==
    LET title == toTitle(s)
    IN IF Len(title) > 0
       THEN ToLowerString(SubSeq(title, 1, 1)) \o SubSeq(title, 2, Len(title))
       ELSE title

\* toSnake (codegen.go)
toSnake(s) == ReplaceAll(s, "-", "_")

\* the map case missing: a map falls through to the default
goType_MapFallsThrough(param) ==
    CASE param.Type = S_string -> S_string
      [] param.Type = S_integer -> S_int
      [] param.Type = S_boolean -> S_bool
      [] param.Type = S_array ->
            S_slice \o (IF param.ItemType # S_empty /\ param.ItemType = S_integer
                        THEN S_int ELSE S_string)
      [] OTHER -> S_string

\* the item type of an array is never looked at
goType_ItemTypeIgnored(param) ==
    CASE param.Type = S_string -> S_string
      [] param.Type = S_integer -> S_int
      [] param.Type = S_boolean -> S_bool
      [] param.Type = S_array -> S_slice \o S_string
      [] param.Type = S_map -> S_mapStringString
      [] OTHER -> S_string

\* goType (codegen.go)
goType(param) ==
    CASE param.Type = S_string -> S_string
      [] param.Type = S_integer -> S_int
      [] param.Type = S_boolean -> S_bool
      [] param.Type = S_array ->
            S_slice \o (IF param.ItemType # S_empty /\ param.ItemType = S_integer
                        THEN S_int ELSE S_string)
      [] param.Type = S_map -> S_mapStringString
      [] OTHER -> S_string

\* omitempty left out for required parameters
jsonTag_RequiredNotOmitted(param) ==
    [key |-> "json", name |-> toSnake(param.Name), omitempty |-> ~param.Required]

\* jsonTag (codegen.go): json:"<name>,omitempty"
jsonTag(param) == [key |-> "json", name |-> toSnake(param.Name), omitempty |-> TRUE]

\* the enum values listed after the description
schemaTag_WithEnum(param) ==
    [key |-> "jsonschema", text |-> ReplaceAll(param.Description, "\"", "'") \o Join(param.Enum)]

\* schemaTag (codegen.go): jsonschema:"<description>", double quotes made single
schemaTag(param) == [key |-> "jsonschema", text |-> ReplaceAll(param.Description, "\"", "'")]

\* only the first parameter looked at
hasPositional_FirstOnly(sub) == sub.Parameters # <<>> /\ sub.Parameters[1].Positional

\* hasPositional (codegen.go)
hasPositional(sub) == \E i \in DOMAIN sub.Parameters : sub.Parameters[i].Positional

\* the result slice built back to front
nonPositional_Reversed(params) ==
    LET r == SelectSeq(params, LAMBDA p : ~p.Positional)
    IN [i \in DOMAIN r |-> r[Len(r) + 1 - i]]

\* nonPositional (codegen.go)
nonPositional(params) == SelectSeq(params, LAMBDA p : ~p.Positional)

\* the result slice built back to front
positionalArgs_Reversed(params) ==
    LET r == SelectSeq(params, LAMBDA p : p.Positional)
    IN [i \in DOMAIN r |-> r[Len(r) + 1 - i]]

\* positionalArgs (codegen.go)
positionalArgs(params) == SelectSeq(params, LAMBDA p : p.Positional)

---------------------------------------------------------------------------
(* templates.go: what the command template and the registry template render. *)
(* A rendered unit is kept as its declarations, not as text.                  *)

\* Register<Group><Sub>Tool (codegen tests: RegisterTestListTool,
\* RegisterExampleRunTool, RegisterCmd1ListTool(server, exec))
RegisterToolName(command, sub) == S_Register \o toTitle(command) \o toTitle(sub) \o S_Tool

\* <Group><Sub>Args (codegen tests: TestListArgs, TestCreateArgs)
ArgsTypeName(command, sub) == toTitle(command) \o toTitle(sub) \o S_Args

\* the names run through the naming transform first
BaseTokens_TitleCase(command, sub) == <<toTitle(command), toTitle(sub)>>

\* cmd := []string{"<command>", "<sub>"} (codegen tests: `"test", "list"`)
BaseTokens(command, sub) == <<command, sub>>

\* one struct field per parameter
RenderField(param) ==
    [name |-> toTitle(param.Name), type |-> goType(param),
     json |-> jsonTag(param), schema |-> schemaTag(param)]

\* the parameter-holder struct of a subcommand
RenderStruct(def, sub) ==
    [name |-> ArgsTypeName(def.Command, sub.Name),
     fields |-> [k \in DOMAIN sub.Parameters |-> RenderField(sub.Parameters[k])]]

\* the statement appending one positional parameter
RenderPositional(param) ==
    [field |-> toTitle(param.Name), type |-> goType(param), required |-> param.Required]

\* the statement appending one flag-style parameter
RenderFlag(param) ==
    [field |-> toTitle(param.Name), type |-> goType(param), flag |-> param.Flag]

\* the registration function of a subcommand
RenderFunc(def, sub) ==
    [name |-> RegisterToolName(def.Command, sub.Name),
     argsType |-> ArgsTypeName(def.Command, sub.Name),
     base |-> BaseTokens(def.Command, sub.Name),
     positional |-> [k \in DOMAIN positionalArgs(sub.Parameters) |->
                        RenderPositional(positionalArgs(sub.Parameters)[k])],
     flags |-> [k \in DOMAIN nonPositional(sub.Parameters) |->
                   RenderFlag(nonPositional(sub.Parameters)[k])]]

\* commandTemplate executed on one definition
RenderCommand(def) ==
    [package |-> "generated",
     structs |-> [j \in DOMAIN def.Subcommands |-> RenderStruct(def, def.Subcommands[j])],
     funcs |-> [j \in DOMAIN def.Subcommands |-> RenderFunc(def, def.Subcommands[j])],
     calls |-> <<>>]

\* the calls of one group, in subcommand order
GroupCalls(def) ==
    [j \in DOMAIN def.Subcommands |-> RegisterToolName(def.Command, def.Subcommands[j].Name)]

\* the calls of all groups, {{range .}}{{range .Subcommands}}
RECURSIVE AllCalls(_)
AllCalls(defs) ==
    IF defs = <<>> THEN <<>> ELSE GroupCalls(Head(defs)) \o AllCalls(Tail(defs))

\* registryTemplate executed on the definitions: func RegisterAllTools
RenderRegistry(defs) ==
    [package |-> "generated", structs |-> <<>>, funcs |-> <<>>, calls |-> AllCalls(defs)]

---------------------------------------------------------------------------
(* codegen.go: GenerateCode, generateCommandFile, generateRegistry *)

Digits == {"0","1","2","3","4","5","6","7","8","9"}
IsLetter(c) == c = "_" \/ \E i \in DOMAIN Lower : c = Lower[i] \/ c = Upper[i]

\* a Go identifier: a letter, then letters and digits
IsIdentifier(s) ==
    /\ Len(s) > 0
    /\ IsLetter(s[1])
    /\ \A i \in DOMAIN s : IsLetter(s[i]) \/ s[i] \in Digits

\* format.Source parses the unit: it fails when a declared name is no identifier
SourceParses(unit) ==
    /\ \A j \in DOMAIN unit.structs :
          /\ IsIdentifier(unit.structs[j].name)
          /\ \A k \in DOMAIN unit.structs[j].fields : IsIdentifier(unit.structs[j].fields[k].name)
    /\ \A j \in DOMAIN unit.funcs : IsIdentifier(unit.funcs[j].name)
    /\ \A j \in DOMAIN unit.calls : IsIdentifier(unit.calls[j])

\* a failed format.Source leaves formatted nil and nil is written
FormatOrFallback_NilOnFailure(unit) ==
    IF SourceParses(unit)
    THEN [unit |-> unit, formatted |-> TRUE, whole |-> TRUE]
    ELSE [unit |-> [package |-> "", structs |-> <<>>, funcs |-> <<>>, calls |-> <<>>],
          formatted |-> FALSE, whole |-> TRUE]

\* format.Source(buf.Bytes()) with the fallback to the unformatted bytes
FormatOrFallback(unit) == [unit |-> unit, formatted |-> SourceParses(unit), whole |-> TRUE]

\* the registry rendered without the last group
generateRegistryContent_LastGroupMissing(defs) ==
    FormatOrFallback(RenderRegistry(SubSeq(defs, 1, Len(defs) - 1)))

\* generateRegistry: what is handed to os.WriteFile (template, then format)
generateRegistryContent(defs) == FormatOrFallback(RenderRegistry(defs))

\* generateCommandFile: what is handed to os.WriteFile (template, then format)
generateCommandFileContent(def) == FormatOrFallback(RenderCommand(def))

\* the file named after the wrong field of the definition
CommandFileName_Description(def) == def.Description \o S_genGo

\* filepath.Join(outputDir, fmt.Sprintf("%s_gen.go", def.Command)), inside outputDir
CommandFileName(def) == def.Command \o S_genGo

\* filepath.Join(outputDir, "registry_gen.go"), inside outputDir
RegistryFileName == S_registry \o S_genGo

\* a file that os.WriteFile created or truncated and then failed to fill
PartialContent ==
    [unit |-> [package |-> "", structs |-> <<>>, funcs |-> <<>>, calls |-> <<>>],
     formatted |-> FALSE, whole |-> FALSE]

\* the directory emptied before the file is written
WriteFile_DirectoryEmptied(f, name, content) == [n \in {name} |-> content]

\* the file opened without truncation: an existing file keeps its content
WriteFile_KeepExisting(f, name, content) ==
    [n \in DOMAIN f \cup {name} |-> IF n \in DOMAIN f THEN f[n] ELSE content]

\* os.WriteFile succeeded: the file holds exactly the new content
WriteFile(f, name, content) == [n \in DOMAIN f \cup {name} |-> IF n = name THEN content ELSE f[n]]

NoGenError == [isNil |-> TRUE, msg |-> "", command |-> <<>>]

\* the error wrapped without the command's name
CommandError_Unnamed(def) ==
    [isNil |-> FALSE, msg |-> "failed to generate code for", command |-> <<>>]

\* fmt.Errorf("failed to generate code for %s: %w", def.Command, err)
CommandError(def) ==
    [isNil |-> FALSE, msg |-> "failed to generate code for", command |-> def.Command]

---------------------------------------------------------------------------
(* The definitions the generator is run on *)

Param(name, type, item, flag, required, positional) ==
    [Name |-> name, Type |-> type, ItemType |-> item, Flag |-> flag, Short |-> S_empty,
     Description |-> S_empty, Required |-> required, Positional |-> positional, Enum |-> <<>>]

S_a == <<"a">>
S_ab == <<"a","-","b">>
S_c == <<"c">>
S_cd == <<"c"," ","d">>
S_bc == <<"b","-","c">>
S_2fa == <<"2","f","a">>
S_flag2fa == <<"-","-","2","f","a">>
S_ids == <<"i","d","s">>
S_dryRun == <<"d","r","y","-","r","u","n">>
S_flagIds == <<"-","-","i","d","s">>
S_flagDryRun == <<"-","-","d","r","y","-","r","u","n">>

P_limit == Param(S_limit, S_integer, S_empty, S_flagLimit, FALSE, FALSE)
P_json == Param(S_json, S_array, S_string, S_flagJson, FALSE, FALSE)
P_name == Param(S_name, S_string, S_empty, S_empty, TRUE, TRUE)
P_force == Param(S_force, S_boolean, S_empty, S_flagForce, FALSE, FALSE)
P_ids == Param(S_ids, S_array, S_integer, S_flagIds, FALSE, FALSE)
P_dryRun == Param(S_dryRun, S_boolean, S_empty, S_flagDryRun, FALSE, FALSE)
\* a name that toTitle leaves starting with a digit: no Go identifier
P_2fa == Param(S_2fa, S_boolean, S_empty, S_flag2fa, FALSE, FALSE)

Sub(name, params) == [Name |-> name, Description |-> S_empty, Parameters |-> params]

SubList == Sub(S_list, <<P_limit, P_json>>)
SubCreate == Sub(S_create, <<P_name, P_force>>)
SubC == Sub(S_c, <<P_2fa>>)
SubBC == Sub(S_bc, <<P_ids, P_dryRun>>)
\* a name with a space in it: no Go identifier can be made of it
SubCD == Sub(S_cd, <<>>)

CommandNames == {S_pr, S_a, S_ab, S_registry}
SubcommandLists == {<<>>, <<SubList, SubCreate>>, <<SubC, SubCD>>, <<SubBC>>}

GroupUniverse ==
    {[Command |-> c, Description |-> S_empty, Subcommands |-> ss] :
        c \in CommandNames, ss \in SubcommandLists}

DefinitionLists == UNION {[1..n -> GroupUniverse] : n \in 0..MaxDefs}

\* a file left in the output directory by an earlier run
StaleContent ==
    [unit |-> [package |-> "generated", structs |-> <<>>, funcs |-> <<>>,
               calls |-> <<S_Register \o S_Tool>>],
     formatted |-> TRUE, whole |-> TRUE]

S_old == <<"o","l","d">>
EmptyDir == [n \in {} |-> StaleContent]
StaleDir == [n \in {S_old \o S_genGo, S_pr \o S_genGo, RegistryFileName} |-> StaleContent]

\* the loader is idle while the generator is looked at
LoadIdle ==
    /\ dir = [exists |-> FALSE, entries |-> <<>>]
    /\ lpc = "idle"
    /\ files = <<>>
    /\ idx = 1
    /\ definitions = <<>>
    /\ ret = NoReturn

GenInit ==
    /\ LoadIdle
    /\ CallIdle
    /\ FnIdle
    /\ MainIdle
    /\ ExecIdle
    /\ defsIn \in DefinitionLists
    /\ \E d \in {[creatable |-> TRUE, before |-> EmptyDir],
                 [creatable |-> TRUE, before |-> StaleDir],
                 [creatable |-> FALSE, before |-> EmptyDir]} :
          outDir = d /\ fs = d.before
    /\ gpc = "start"
    /\ gi = 1
    /\ gret = NoGenError
    /\ written = <<>>
    /\ warnings = <<>>

\* the error of os.MkdirAll dropped
MkdirAll_ErrorIgnored ==
    /\ gpc = "start"
    /\ gpc' = "commands"
    /\ UNCHANGED <<defsIn, outDir, fs, gi, gret, written, warnings>>

\* codegen.go GenerateCode: os.MkdirAll(outputDir, 0750)
MkdirAll ==
    /\ gpc = "start"
    /\ IF outDir.creatable
       THEN gpc' = "commands" /\ gret' = gret
       ELSE /\ gpc' = "done"
            /\ gret' = [isNil |-> FALSE, msg |-> "failed to create output directory",
                        command |-> <<>>]
    /\ UNCHANGED <<defsIn, outDir, fs, gi, written, warnings>>

\* codegen.go generateCommandFile, called for definitions[gi]
GenerateCommandFile ==
    /\ gpc = "commands"
    /\ gi <= Len(defsIn)
    /\ LET def == defsIn[gi]
           content == generateCommandFileContent(def)
           filename == CommandFileName(def)
       IN /\ warnings' = IF content.formatted THEN warnings ELSE Append(warnings, def.Command)
          /\ \E outcome \in {"written", "open fails", "write fails"} :
                \/ /\ outcome = "written"
                   /\ fs' = WriteFile(fs, filename, content)
                   /\ written' = Append(written, [name |-> filename, content |-> content])
                   /\ gi' = gi + 1
                   /\ UNCHANGED <<gpc, gret>>
                \/ /\ outcome # "written"
                   /\ fs' = IF outcome = "write fails"
                            THEN WriteFile(fs, filename, PartialContent) ELSE fs
                   /\ gret' = CommandError(def)
                   /\ gpc' = "done"
                   /\ UNCHANGED <<gi, written>>
    /\ UNCHANGED <<defsIn, outDir>>

\* codegen.go generateRegistry, called after the loop
GenerateRegistry ==
    /\ gpc = "commands"
    /\ gi > Len(defsIn)
    /\ LET content == generateRegistryContent(defsIn)
       IN /\ warnings' = IF content.formatted THEN warnings ELSE Append(warnings, S_registry)
          /\ \E outcome \in {"written", "open fails", "write fails"} :
                \/ /\ outcome = "written"
                   /\ fs' = WriteFile(fs, RegistryFileName, content)
                   /\ written' = Append(written, [name |-> RegistryFileName, content |-> content])
                   /\ gret' = NoGenError
                \/ /\ outcome # "written"
                   /\ fs' = IF outcome = "write fails"
                            THEN WriteFile(fs, RegistryFileName, PartialContent) ELSE fs
                   /\ gret' = [isNil |-> FALSE, msg |-> "failed to generate registry",
                               command |-> <<>>]
                   /\ UNCHANGED written
    /\ gpc' = "done"
    /\ UNCHANGED <<defsIn, outDir, gi>>

GenNext ==
    \/ MkdirAll /\ UNCHANGED <<loadVars, callVars, fnVars, mainVars, execVars>>
    \/ GenerateCommandFile /\ UNCHANGED <<loadVars, callVars, fnVars, mainVars, execVars>>
    \/ GenerateRegistry /\ UNCHANGED <<loadVars, callVars, fnVars, mainVars, execVars>>

SpecGen == GenInit /\ [][GenNext]_vars

---------------------------------------------------------------------------
(* Properties of the generator *)

IsSeparator(c) == c \in {"-", "_"}

\* ToUpperCamel of the specification: the separators are dropped and the
\* character that starts the string or follows a separator is capitalized
ToUpperCamel(s) ==
    SelectSeq([i \in DOMAIN s |->
                  IF i = 1 \/ IsSeparator(s[i - 1]) THEN ToUpper(s[i]) ELSE s[i]],
              LAMBDA c : ~IsSeparator(c))

\* MapType of the specification: the mapping table
MapType(p) ==
    CASE p.Type = S_string -> <<"s","t","r","i","n","g">>
      [] p.Type = S_integer -> <<"i","n","t">>
      [] p.Type = S_boolean -> <<"b","o","o","l">>
      [] p.Type = S_array /\ p.ItemType = S_integer -> <<"[","]","i","n","t">>
      [] p.Type = S_array /\ p.ItemType # S_integer -> <<"[","]","s","t","r","i","n","g">>
      [] p.Type = S_map -> <<"m","a","p","[","s","t","r","i","n","g","]","s","t","r","i","n","g">>
      [] OTHER -> <<"s","t","r","i","n","g">>

\* the number of subcommands of the groups before group i
RECURSIVE Offset(_, _)
Offset(defs, i) == IF i <= 1 THEN 0 ELSE Offset(defs, i - 1) + Len(defs[i - 1].Subcommands)

TotalSubcommands(defs) == Offset(defs, Len(defs) + 1)

\* GenerateCode returned nil
GenSucceeded == gpc = "done" /\ gret.isNil

\* the content generateRegistry wrote (the last write of a successful run)
RegistryWritten == written[Len(written)].content.unit

\* the generated name the specification gives to a subcommand's registration
RegistrationName(def, sub) ==
    S_Register \o ToUpperCamel(def.Command) \o ToUpperCamel(sub.Name) \o S_Tool

\* no two subcommands of the run are given the same generated name
GeneratedNamesDistinct(defs) ==
    \A i1, i2 \in DOMAIN defs :
        \A j1 \in DOMAIN defs[i1].Subcommands : \A j2 \in DOMAIN defs[i2].Subcommands :
            (<<i1, j1>> # <<i2, j2>>) =>
                RegistrationName(defs[i1], defs[i1].Subcommands[j1])
                    # RegistrationName(defs[i2], defs[i2].Subcommands[j2])

PairwiseDistinct(seq) == \A a, b \in DOMAIN seq : a # b => seq[a] # seq[b]

\* C4 as stated: the registry over N groups with M subcommands holds exactly M
\* distinct registration calls, each exactly once, in group then subcommand order.
C4_AsStated ==
    GenSucceeded =>
        /\ Len(RegistryWritten.calls) = TotalSubcommands(defsIn)
        /\ PairwiseDistinct(RegistryWritten.calls)
        /\ \A i \in DOMAIN defsIn : \A j \in DOMAIN defsIn[i].Subcommands :
              RegistryWritten.calls[Offset(defsIn, i) + j]
                  = RegistrationName(defsIn[i], defsIn[i].Subcommands[j])

\* C4 amended: the registry holds exactly M registration calls, one per
\* subcommand, in group order and within a group in declaration order; over zero
\* groups it holds none; the calls are pairwise distinct when no two
\* subcommands are given the same generated name (which is not checked).
C4_RegistryComplete ==
    GenSucceeded =>
        /\ Len(RegistryWritten.calls) = TotalSubcommands(defsIn)
        /\ \A i \in DOMAIN defsIn : \A j \in DOMAIN defsIn[i].Subcommands :
              RegistryWritten.calls[Offset(defsIn, i) + j]
                  = RegistrationName(defsIn[i], defsIn[i].Subcommands[j])
        /\ (defsIn = <<>> => RegistryWritten.calls = <<>>)
        /\ (GeneratedNamesDistinct(defsIn) => PairwiseDistinct(RegistryWritten.calls))
        /\ fs[RegistryFileName].unit = RegistryWritten

\* two groups with three subcommands between them, all names distinct
C4_Witness ==
    /\ GenSucceeded
    /\ Len(defsIn) = 2
    /\ Len(defsIn[1].Subcommands) = 2
    /\ Len(defsIn[2].Subcommands) = 1
    /\ Len(RegistryWritten.calls) = 3
    /\ PairwiseDistinct(RegistryWritten.calls)

\* the names of the files this run wrote
WrittenNames == {written[k].name : k \in DOMAIN written}

\* the group names are pairwise distinct and none is "registry"
FileNamesDistinct(defs) ==
    /\ \A i1, i2 \in DOMAIN defs : i1 # i2 => defs[i1].Command # defs[i2].Command
    /\ \A i \in DOMAIN defs : defs[i].Command # S_registry

\* C5 as stated: after GenerateCode succeeds on any list of N definitions the
\* run has generated exactly N+1 files, one per group plus the registry.
C5_AsStated ==
    GenSucceeded => Cardinality(WrittenNames) = Len(defsIn) + 1

\* C5 amended: after GenerateCode succeeds on N definitions whose names are
\* pairwise distinct and none of which is "registry", the output directory
\* holds <name>_gen.go for every group and registry_gen.go, N+1 generated
\* files; in general it holds one file per distinct name among them.
C5_OneFilePerGroup ==
    GenSucceeded =>
        /\ WrittenNames = {defsIn[i].Command \o S_genGo : i \in DOMAIN defsIn}
                              \cup {S_registry \o S_genGo}
        /\ WrittenNames \subseteq DOMAIN fs
        /\ \A n \in WrittenNames : fs[n].whole
        /\ FileNamesDistinct(defsIn) =>
              /\ Cardinality(WrittenNames) = Len(defsIn) + 1
              /\ (outDir.before = EmptyDir => Cardinality(DOMAIN fs) = Len(defsIn) + 1)

\* two groups of different names written to a fresh directory
C5_Witness ==
    /\ GenSucceeded
    /\ Len(defsIn) = 2
    /\ FileNamesDistinct(defsIn)
    /\ outDir.before = EmptyDir
    /\ Cardinality(DOMAIN fs) = 3

\* C6: the parameter-holder struct emitted for a subcommand has exactly one
\* field per declared parameter, in declaration order, named
\* ToUpperCamel(parameter.name) and typed MapType(parameter).
C6_StructFields ==
    \A k \in DOMAIN written :
        k <= Len(defsIn) =>
            LET def == defsIn[k]
                unit == written[k].content.unit
            IN /\ Len(unit.structs) = Len(def.Subcommands)
               /\ \A j \in DOMAIN def.Subcommands :
                     LET params == def.Subcommands[j].Parameters
                         fields == unit.structs[j].fields
                     IN /\ Len(fields) = Len(params)
                        /\ \A p \in DOMAIN params :
                              /\ fields[p].name = ToUpperCamel(params[p].Name)
                              /\ fields[p].type = MapType(params[p])

\* a written struct with two fields, one an integer array, one with a hyphen
C6_Witness ==
    \E k \in DOMAIN written :
        /\ k <= Len(defsIn)
        /\ \E j \in DOMAIN written[k].content.unit.structs :
              LET fields == written[k].content.unit.structs[j].fields
              IN /\ Len(fields) = 2
                 /\ fields[1].type = <<"[","]","i","n","t">>
                 /\ fields[2].name = <<"D","r","y","R","u","n">>

\* C7 as stated: the registration function is named
\* Register<ToUpperCamel(group)><ToUpperCamel(subcommand)>.
C7_AsStated ==
    \A k \in DOMAIN written :
        k <= Len(defsIn) =>
            \A j \in DOMAIN defsIn[k].Subcommands :
                written[k].content.unit.funcs[j].name
                    = S_Register \o ToUpperCamel(defsIn[k].Command)
                          \o ToUpperCamel(defsIn[k].Subcommands[j].Name)

\* C7 amended: the registration function is named
\* Register<ToUpperCamel(group)><ToUpperCamel(subcommand)>Tool, and the
\* registry calls each subcommand's function by the name it is defined with in
\* the group's command file.
C7_RegistrationNames ==
    /\ \A k \in DOMAIN written :
          k <= Len(defsIn) =>
              /\ Len(written[k].content.unit.funcs) = Len(defsIn[k].Subcommands)
              /\ \A j \in DOMAIN defsIn[k].Subcommands :
                    written[k].content.unit.funcs[j].name
                        = RegistrationName(defsIn[k], defsIn[k].Subcommands[j])
    /\ GenSucceeded =>
          \A i \in DOMAIN defsIn : \A j \in DOMAIN defsIn[i].Subcommands :
              RegistryWritten.calls[Offset(defsIn, i) + j]
                  = written[i].content.unit.funcs[j].name

\* a run that wrote a group with a hyphen in its name and a registry calling it
C7_Witness ==
    /\ GenSucceeded
    /\ \E i \in DOMAIN defsIn :
          /\ defsIn[i].Command = S_ab
          /\ \E j \in DOMAIN defsIn[i].Subcommands :
                /\ defsIn[i].Subcommands[j].Name = S_bc
                /\ written[i].content.unit.funcs[j].name
                      = <<"R","e","g","i","s","t","e","r","A","B","B","C","T","o","o","l">>

\* the rendering written as it is, after format.Source failed on it
Unformatted(unit) == [unit |-> unit, formatted |-> FALSE, whole |-> TRUE]

\* the warnings printed on standard error name x
Warned(x) == \E w \in DOMAIN warnings : warnings[w] = x

\* C17: a formatting failure is never fatal: when format.Source fails on a
\* rendered command file or on the registry, the unformatted rendering is
\* written to the same file, a warning is printed, and the run still succeeds
\* unless a write fails.
C17_FormatFailureNotFatal ==
    /\ \A k \in DOMAIN written :
          k <= Len(defsIn) =>
             /\ written[k].name = defsIn[k].Command \o S_genGo
             /\ ~SourceParses(RenderCommand(defsIn[k])) =>
                   /\ written[k].content = Unformatted(RenderCommand(defsIn[k]))
                   /\ Warned(defsIn[k].Command)
    /\ \A k \in DOMAIN written :
          k = Len(defsIn) + 1 =>
             /\ written[k].name = S_registry \o S_genGo
             /\ ~SourceParses(RenderRegistry(defsIn)) =>
                   /\ written[k].content = Unformatted(RenderRegistry(defsIn))
                   /\ Warned(S_registry)
    /\ gpc = "done" => (gret.isNil <=> Len(written) = Len(defsIn) + 1)
    /\ (gpc = "commands" /\ gi <= Len(defsIn)) => Len(written) = gi - 1

\* a run that succeeded although neither the one command file nor the
\* registry could be formatted
C17_Witness ==
    /\ GenSucceeded
    /\ Len(defsIn) = 1
    /\ defsIn[1].Subcommands = <<SubC, SubCD>>
    /\ ~written[1].content.formatted
    /\ ~written[2].content.formatted
    /\ written[2].content.unit.calls # <<>>
    /\ warnings = <<defsIn[1].Command, S_registry>>
    /\ fs[defsIn[1].Command \o S_genGo] = written[1].content

\* GenerateCode returned the error of a failed generateCommandFile
CommandFailed == gpc = "done" /\ ~gret.isNil /\ gret.msg = "failed to generate code for"

\* the group whose file could not be written: the one after the last write
FailedGroup == Len(written) + 1

\* C18: when writing the file of the i-th group fails, GenerateCode returns
\* an error naming that group's command, nothing is written for a later group
\* or for the registry, and the files written for the groups before i stay in
\* the output directory.
C18_WriteErrorShortCircuits ==
    CommandFailed =>
        /\ FailedGroup <= Len(defsIn)
        /\ gi = FailedGroup
        /\ gret.command = defsIn[FailedGroup].Command
        /\ \A k \in DOMAIN written :
              /\ written[k].name = defsIn[k].Command \o S_genGo
              /\ written[k].name \in DOMAIN fs
              /\ (\A j \in (k + 1)..FailedGroup : defsIn[j].Command # defsIn[k].Command) =>
                    fs[written[k].name] = written[k].content
        /\ \A j \in (FailedGroup + 1)..Len(defsIn) :
              (\A k \in 1..FailedGroup : defsIn[k].Command # defsIn[j].Command) =>
                 LET n == defsIn[j].Command \o S_genGo
                 IN IF n \in DOMAIN outDir.before
                    THEN n \in DOMAIN fs /\ fs[n] = outDir.before[n]
                    ELSE n \notin DOMAIN fs
        /\ (\A k \in 1..FailedGroup : defsIn[k].Command # S_registry) =>
              LET n == S_registry \o S_genGo
              IN IF n \in DOMAIN outDir.before
                 THEN n \in DOMAIN fs /\ fs[n] = outDir.before[n]
                 ELSE n \notin DOMAIN fs

\* the second of two groups fails: the first group's file is there, the
\* registry is not
C18_Witness ==
    /\ CommandFailed
    /\ Len(defsIn) = 2
    /\ FailedGroup = 2
    /\ defsIn[1].Command = S_pr
    /\ defsIn[2].Command = S_ab
    /\ gret.command = S_ab
    /\ outDir.before = EmptyDir
    /\ DOMAIN fs = {S_pr \o S_genGo}
    /\ fs[S_pr \o S_genGo] = written[1].content


\* C26: GenerateCode is sequential: nothing is written before the output
\* directory was created (and nothing at all when that fails); the command
\* files are written one per definition in input order; registry_gen.go is
\* written last, only after all N command files were written; nil is
\* returned only when all N command files and the registry were written.
C26_SequentialOrder ==
    LET N == Len(defsIn)
    IN /\ gpc = "start" => (written = <<>> /\ fs = outDir.before)
       /\ ~outDir.creatable =>
             /\ written = <<>> /\ fs = outDir.before
             /\ gpc = "done" => ~gret.isNil
       /\ Len(written) <= N + 1
       /\ \A k \in DOMAIN written :
             written[k].name = (IF k <= N THEN defsIn[k].Command \o <<"_","g","e","n",".","g","o">>
                                ELSE <<"r","e","g","i","s","t","r","y","_","g","e","n",".","g","o">>)
       /\ gpc = "commands" => (gi <= N + 1 /\ Len(written) = gi - 1)
       /\ (gpc = "done" /\ gret.isNil) => Len(written) = N + 1
       /\ Len(written) = N + 1 => (gpc = "done" /\ gret.isNil)

\* two groups: both command files, then the registry, then nil
C26_Witness ==
    /\ gpc = "done"
    /\ gret.isNil
    /\ Len(defsIn) = 2
    /\ Len(written) = 3
    /\ written[1].name = S_pr \o S_genGo
    /\ written[2].name = S_a \o S_genGo
    /\ written[3].name = RegistryFileName

\* the paths a run over defsIn may write to
Targets ==
    {defsIn[i].Command \o <<"_","g","e","n",".","g","o">> : i \in DOMAIN defsIn}
        \cup {<<"r","e","g","i","s","t","r","y","_","g","e","n",".","g","o">>}

\* C30: a run of GenerateCode creates or overwrites only <d.Command>_gen.go
\* for the definitions d it was given and registry_gen.go; every other file
\* of the output directory, a *_gen.go of an earlier run for a group that is
\* gone included, keeps its content and is not deleted.
C30_Frame ==
    /\ \A n \in DOMAIN outDir.before :
          /\ n \in DOMAIN fs
          /\ n \notin Targets => fs[n] = outDir.before[n]
    /\ \A n \in DOMAIN fs : n \notin DOMAIN outDir.before => n \in Targets
    /\ \A k \in DOMAIN written : written[k].name \in Targets

\* a complete run into a directory that holds old_gen.go from an earlier run
C30_Witness ==
    /\ gpc = "done"
    /\ gret.isNil
    /\ outDir.before = StaleDir
    /\ \A i \in DOMAIN defsIn : defsIn[i].Command # S_old
    /\ Len(defsIn) = 2
    /\ fs[S_old \o S_genGo] = StaleContent
    /\ fs[S_pr \o S_genGo] # StaleContent
    /\ fs[RegistryFileName] # StaleContent
    /\ S_a \o S_genGo \in DOMAIN fs

\* the (group name, subcommand name) pairs of the run, in generation order
NamePairs(defs) ==
    UNION {{<<defs[i].Command, defs[i].Subcommands[j].Name>> : j \in DOMAIN defs[i].Subcommands} :
              i \in DOMAIN defs}

\* every subcommand of the run has a pair of its own
PairsDistinct(defs) == Cardinality(NamePairs(defs)) = TotalSubcommands(defs)

\* the registration functions and parameter structs of all command files
AllFuncNames ==
    UNION {{written[k].content.unit.funcs[j].name : j \in DOMAIN written[k].content.unit.funcs} :
              k \in {n \in DOMAIN written : n <= Len(defsIn)}}
AllStructNames ==
    UNION {{written[k].content.unit.structs[j].name : j \in DOMAIN written[k].content.unit.structs} :
              k \in {n \in DOMAIN written : n <= Len(defsIn)}}

\* C29 as stated: when the (group name, subcommand name) pairs of a run are
\* pairwise distinct, so are the generated registration function names and
\* the parameter struct names: the package has no duplicate identifier.
C29_AsStated ==
    (GenSucceeded /\ PairsDistinct(defsIn)) =>
        /\ Cardinality(AllFuncNames) = TotalSubcommands(defsIn)
        /\ Cardinality(AllStructNames) = TotalSubcommands(defsIn)
        /\ PairwiseDistinct(RegistryWritten.calls)
---------------------------------------------------------------------------
(* The handler that a generated registration function registers.  The      *)
(* statements come from the command template (templates.go); the executor  *)
(* it calls is internal/executor.                                           *)

MaxParams == 3

\* the value of a struct field, one shape for every Go type: a string, an
\* int, a bool, or a slice of such values
Value(s, i, b, l) == [s |-> s, i |-> i, b |-> b, l |-> l]
ZeroValue == Value(S_empty, 0, FALSE, <<>>)
StringValue(s) == Value(s, 0, FALSE, <<>>)
IntValue(i) == Value(S_empty, i, FALSE, <<>>)
BoolValue(b) == Value(S_empty, 0, b, <<>>)
SliceValue(l) == Value(S_empty, 0, FALSE, l)
IsZero(v) == v = ZeroValue

\* decimal rendering of an int
DigitChar(d) ==
    CASE d = 0 -> "0" [] d = 1 -> "1" [] d = 2 -> "2" [] d = 3 -> "3" [] d = 4 -> "4"
      [] d = 5 -> "5" [] d = 6 -> "6" [] d = 7 -> "7" [] d = 8 -> "8" [] d = 9 -> "9"

RECURSIVE Itoa(_)
Itoa(n) ==
    IF n < 0 THEN <<"-">> \o Itoa(0 - n)
    ELSE IF n < 10 THEN <<DigitChar(n)>>
    ELSE Itoa(n \div 10) \o <<DigitChar(n % 10)>>

\* the string rendering of a scalar field of Go type t
RenderValue(t, v) ==
    CASE t = S_int -> Itoa(v.i)
      [] t = S_bool -> (IF v.b THEN S_true ELSE S_false)
      [] OTHER -> v.s

IsSliceType(t) == Len(t) >= 2 /\ SubSeq(t, 1, 2) = S_slice
ElemType(t) == SubSeq(t, 3, Len(t))

\* every zero value skipped, also that of a required parameter
PositionalTokens_ZeroAlwaysSkipped(stmt, args) ==
    IF IsZero(args[stmt.field])
    THEN <<>>
    ELSE <<RenderValue(stmt.type, args[stmt.field])>>

\* a positional statement: the field's value as one token, skipped when the
\* parameter is not required and the field holds its zero value
PositionalTokens(stmt, args) ==
    IF ~stmt.required /\ IsZero(args[stmt.field])
    THEN <<>>
    ELSE <<RenderValue(stmt.type, args[stmt.field])>>

\* the flag followed by the element, for every element of a slice field
RECURSIVE FlagPerElement(_, _, _)
FlagPerElement(flag, t, l) ==
    IF l = <<>> THEN <<>>
    ELSE <<flag, RenderValue(t, Head(l))>> \o FlagPerElement(flag, t, Tail(l))

\* a bool treated like any other scalar: the flag and then "true"
FlagTokens_BoolWithValue(stmt, args) ==
    CASE IsSliceType(stmt.type) ->
            FlagPerElement(stmt.flag, ElemType(stmt.type), args[stmt.field].l)
      [] OTHER ->
            IF IsZero(args[stmt.field]) THEN <<>>
            ELSE <<stmt.flag, RenderValue(stmt.type, args[stmt.field])>>

\* a flag statement: a bool appends the flag alone when true; a slice appends
\* the flag once per element; any other field appends flag and value when set
FlagTokens(stmt, args) ==
    CASE stmt.type = S_bool -> (IF args[stmt.field].b THEN <<stmt.flag>> ELSE <<>>)
      [] IsSliceType(stmt.type) ->
            FlagPerElement(stmt.flag, ElemType(stmt.type), args[stmt.field].l)
      [] OTHER ->
            IF IsZero(args[stmt.field]) THEN <<>>
            ELSE <<stmt.flag, RenderValue(stmt.type, args[stmt.field])>>

\* how the gh process ran: whether it started, and its exit code and output
RunUniverse ==
    {[started |-> TRUE, exit |-> 0, stdout |-> "out", stderr |-> ""],
     [started |-> TRUE, exit |-> 1, stdout |-> "", stderr |-> "not found"],
     [started |-> TRUE, exit |-> 0 - 1, stdout |-> "partial", stderr |-> ""],
     [started |-> FALSE, exit |-> 0, stdout |-> "", stderr |-> ""]}

Execute_ErrorOnlyOnExitCode(argv, run) ==
    LET exitCode == IF run.started THEN run.exit ELSE 0
        result == [Stdout |-> run.stdout, Stderr |-> run.stderr, ExitCode |-> exitCode]
    IN [called |-> TRUE, argv |-> argv, result |-> result,
        err |-> IF exitCode # 0
                THEN [isNil |-> FALSE, exit |-> exitCode, stderr |-> result.Stderr]
                ELSE NilError]

\* Executor.Execute (executor.go): the result is built in every case; the
\* error is non-nil when cmd.Run failed and carries exit code and stderr
Execute(argv, run) ==
    LET exitCode == IF run.started THEN run.exit ELSE 0
        result == [Stdout |-> run.stdout, Stderr |-> run.stderr, ExitCode |-> exitCode]
        failed == ~run.started \/ run.exit # 0
    IN [called |-> TRUE, argv |-> argv, result |-> result,
        err |-> IF failed
                THEN [isNil |-> FALSE, exit |-> exitCode, stderr |-> result.Stderr]
                ELSE NilError]

---------------------------------------------------------------------------
(* The subcommands a handler is generated from, and the args it is called with *)

S_value == <<"v","a","l","u","e">>
S_number == <<"n","u","m","b","e","r">>
S_flagNumber == <<"-","-","n","u","m","b","e","r">>
S_title == <<"t","i","t","l","e">>
S_flagTitle == <<"-","-","t","i","t","l","e">>
S_x == <<"x">>
S_y == <<"y">>

\* a positional parameter that is not required
P_value == Param(S_value, S_string, S_empty, S_empty, FALSE, TRUE)
\* a positional integer that is not required and also declares a flag
P_number == Param(S_number, S_integer, S_empty, S_flagNumber, FALSE, TRUE)

\* a flag-style string parameter
P_title == Param(S_title, S_string, S_empty, S_flagTitle, FALSE, FALSE)

HandlerParams == {P_name, P_value, P_number, P_force, P_limit, P_title, P_json, P_ids}

\* parameter lists without repetition, of at most MaxParams parameters
ParameterLists ==
    {ps \in UNION {[1..n -> HandlerParams] : n \in 0..MaxParams} :
        \A i, j \in DOMAIN ps : i # j => ps[i] # ps[j]}

HandlerUniverse ==
    {[command |-> S_ab, sub |-> Sub(S_list, ps)] : ps \in ParameterLists}

\* the values a field of Go type t is called with
ValuesOfType(t) ==
    CASE t = S_int -> {IntValue(0), IntValue(42)}
      [] t = S_bool -> {BoolValue(FALSE), BoolValue(TRUE)}
      [] t = S_slice \o S_int ->
            {SliceValue(<<>>), SliceValue(<<IntValue(42), IntValue(0)>>)}
      [] IsSliceType(t) ->
            {SliceValue(<<>>), SliceValue(<<StringValue(S_x), StringValue(S_y)>>)}
      [] OTHER -> {StringValue(S_empty), StringValue(S_x)}

\* the args structs over a list of struct fields, built field by field
RECURSIVE ArgsOver(_)
ArgsOver(fields) ==
    IF fields = <<>> THEN {[n \in {} |-> ZeroValue]}
    ELSE {[n \in DOMAIN a \cup {Head(fields).name} |->
              IF n = Head(fields).name THEN v ELSE a[n]] :
            a \in ArgsOver(Tail(fields)), v \in ValuesOfType(Head(fields).type)}

\* the args structs of a subcommand: every field holds a value of its type
ArgsOf(sub) == ArgsOver(RenderStruct([Command |-> S_empty], sub).fields)

\* the registration function generated for the subcommand
HandlerOf == RenderFunc([Command |-> hfn.command], hfn.sub)

\* the statement reached after the flag statements before k, then after the
\* positional statements before k
AfterFlags(k) ==
    IF k <= Len(HandlerOf.flags) THEN [pc |-> "flags", k |-> k]
    ELSE [pc |-> "execute", k |-> 1]

AfterPositional(k) ==
    IF k <= Len(HandlerOf.positional) THEN [pc |-> "positional", k |-> k]
    ELSE AfterFlags(1)

CallInit ==
    /\ LoadIdle
    /\ GenIdle
    /\ FnIdle
    /\ MainIdle
    /\ ExecIdle
    /\ hfn \in HandlerUniverse
    /\ hargs \in ArgsOf(hfn.sub)
    /\ cmd = <<>>
    /\ hpc = "start"
    /\ hk = 1
    /\ hexec = NoExecution
    /\ hret = NoHandlerReturn

\* cmd := []string{"<command>", "<sub>"}
HandlerStart ==
    /\ hpc = "start"
    /\ cmd' = HandlerOf.base
    /\ hpc' = AfterPositional(1).pc
    /\ hk' = AfterPositional(1).k
    /\ UNCHANGED <<hfn, hargs, hexec, hret>>

\* the next positional statement
AppendPositional ==
    /\ hpc = "positional"
    /\ cmd' = cmd \o PositionalTokens(HandlerOf.positional[hk], hargs)
    /\ hpc' = AfterPositional(hk + 1).pc
    /\ hk' = AfterPositional(hk + 1).k
    /\ UNCHANGED <<hfn, hargs, hexec, hret>>

\* the next flag statement
AppendFlag ==
    /\ hpc = "flags"
    /\ cmd' = cmd \o FlagTokens(HandlerOf.flags[hk], hargs)
    /\ hpc' = AfterFlags(hk + 1).pc
    /\ hk' = AfterFlags(hk + 1).k
    /\ UNCHANGED <<hfn, hargs, hexec, hret>>

\* exec.Execute(ctx, cmd...) and the handler's return of what it gave
CallExecute ==
    /\ hpc = "execute"
    /\ \E run \in RunUniverse :
          /\ hexec' = Execute(cmd, run)
          /\ hret' = [returned |-> TRUE,
                      result |-> Execute(cmd, run).result, err |-> Execute(cmd, run).err]
    /\ hpc' = "done"
    /\ UNCHANGED <<hfn, hargs, cmd, hk>>

CallNext ==
    \/ HandlerStart /\ UNCHANGED <<loadVars, genVars, fnVars, mainVars, execVars>>
    \/ AppendPositional /\ UNCHANGED <<loadVars, genVars, fnVars, mainVars, execVars>>
    \/ AppendFlag /\ UNCHANGED <<loadVars, genVars, fnVars, mainVars, execVars>>
    \/ CallExecute /\ UNCHANGED <<loadVars, genVars, fnVars, mainVars, execVars>>

SpecCall == CallInit /\ [][CallNext]_vars

---------------------------------------------------------------------------
(* Properties of the generated handler *)

\* the positional parameters of a declaration, in declared order
RECURSIVE DeclaredPositional(_)
DeclaredPositional(ps) ==
    IF ps = <<>> THEN <<>>
    ELSE (IF Head(ps).Positional THEN <<Head(ps)>> ELSE <<>>)
            \o DeclaredPositional(Tail(ps))

\* the field value of parameter p in the args struct, and its token
FieldValue(p) == hargs[ToUpperCamel(p.Name)]
TokenOf(p) == RenderValue(MapType(p), FieldValue(p))

\* the tokens the positional parameters of a declaration contribute
RECURSIVE ExpectedPositional(_)
ExpectedPositional(ps) ==
    IF ps = <<>> THEN <<>>
    ELSE (IF Head(ps).Positional /\ (Head(ps).Required \/ ~IsZero(FieldValue(Head(ps))))
          THEN <<TokenOf(Head(ps))>> ELSE <<>>)
            \o ExpectedPositional(Tail(ps))

DeclaredFlags == {p.Flag : p \in {q \in HandlerParams : q.Flag # S_empty}}
HandlerBuilt == hpc \in {"positional", "flags", "execute", "done"}
PositionalsDone == hpc \in {"flags", "execute", "done"}

\* C8: for every subcommand and every args value, the token sequence handed
\* to Execute starts with exactly the two tokens group name, subcommand name,
\* verbatim, and the handler returns the executor's result and error to its
\* caller unchanged.
C8_BaseTokensAndResult ==
    /\ HandlerBuilt =>
          /\ Len(cmd) >= 2
          /\ cmd[1] = hfn.command
          /\ cmd[2] = hfn.sub.Name
    /\ hpc = "done" =>
          /\ hexec.called
          /\ hexec.argv = cmd
          /\ SubSeq(hexec.argv, 1, 2) = <<hfn.command, hfn.sub.Name>>
          /\ hret.returned
          /\ hret.result = hexec.result
          /\ hret.err = hexec.err
    /\ hpc # "done" => ~hexec.called /\ ~hret.returned

\* a hyphenated group name, arguments after the base tokens, and a
\* failed execution returned to the caller
C8_Witness ==
    /\ hpc = "done"
    /\ hfn.command = S_ab
    /\ hfn.sub.Name = S_list
    /\ Len(cmd) > 2
    /\ SubSeq(cmd, 1, 2) = <<S_ab, S_list>>
    /\ ~hret.err.isNil
    /\ hret.result.ExitCode = 1

\* C9: the positional parameters are appended as bare tokens, without a flag
\* in front, in their declared relative order, right after the base tokens,
\* whatever flag-style parameters are declared before, between or after them.
C9_PositionalOrder ==
    PositionalsDone =>
        LET E == ExpectedPositional(hfn.sub.Parameters)
        IN /\ Len(cmd) >= 2 + Len(E)
           /\ SubSeq(cmd, 3, 2 + Len(E)) = E
           /\ \A i \in 3..(2 + Len(E)) : cmd[i] \notin DeclaredFlags
           /\ (hpc = "flags" /\ hk = 1) => Len(cmd) = 2 + Len(E)
           /\ Len(nonPositional(hfn.sub.Parameters)) = 0 => Len(cmd) = 2 + Len(E)

\* number, a flag, name: the two values follow the base tokens in that order
C9_Witness ==
    /\ hpc = "done"
    /\ hfn.sub.Parameters = <<P_number, P_force, P_name>>
    /\ hargs[toTitle(S_number)] = IntValue(42)
    /\ hargs[toTitle(S_name)] = StringValue(S_x)
    /\ hargs[toTitle(S_force)] = BoolValue(TRUE)
    /\ cmd = <<S_ab, S_list, <<"4","2">>, S_x, S_flagForce>>

\* C10: a positional statement appends nothing when its parameter is not
\* required and the field holds the zero value, and appends exactly one token,
\* the field's value, when its parameter is required, zero value included.
C10_PositionalSkip ==
    [][hpc = "positional" =>
          /\ hk <= Len(DeclaredPositional(hfn.sub.Parameters))
          /\ LET p == DeclaredPositional(hfn.sub.Parameters)[hk]
             IN /\ (~p.Required /\ IsZero(FieldValue(p))) => cmd' = cmd
                /\ p.Required => cmd' = Append(cmd, TokenOf(p))
      ]_vars

\* value (not required) and name (required) both zero: one empty token
C10_Witness ==
    /\ hpc = "done"
    /\ hfn.sub.Parameters = <<P_value, P_name, P_number>>
    /\ IsZero(hargs[toTitle(S_value)])
    /\ IsZero(hargs[toTitle(S_name)])
    /\ IsZero(hargs[toTitle(S_number)])
    /\ cmd = <<S_ab, S_list, S_empty>>

\* the flag-style parameters of a declaration, in declared order
RECURSIVE DeclaredFlagStyle(_)
DeclaredFlagStyle(ps) ==
    IF ps = <<>> THEN <<>>
    ELSE (IF Head(ps).Positional THEN <<>> ELSE <<Head(ps)>>)
            \o DeclaredFlagStyle(Tail(ps))

\* C11: a non-positional boolean parameter with flag F appends exactly the
\* one token F when its field is true and nothing when it is false; no value
\* token ever follows the flag.
C11_BooleanFlag ==
    [][hpc = "flags" =>
          /\ hk <= Len(DeclaredFlagStyle(hfn.sub.Parameters))
          /\ LET p == DeclaredFlagStyle(hfn.sub.Parameters)[hk]
             IN p.Type = S_boolean =>
                   cmd' = (IF FieldValue(p).b THEN Append(cmd, p.Flag) ELSE cmd)
      ]_vars

\* force is true: --force is the last token and no value follows it
C11_Witness ==
    /\ hpc = "done"
    /\ hfn.sub.Parameters = <<P_limit, P_force>>
    /\ hargs[toTitle(S_force)] = BoolValue(TRUE)
    /\ hargs[toTitle(S_limit)] = IntValue(42)
    /\ cmd = <<S_ab, S_list, S_flagLimit, <<"4","2">>, S_flagForce>>

\* the string rendering of one element of an array parameter
ElementToken(p, e) == IF p.ItemType = S_integer THEN Itoa(e.i) ELSE e.s

\* the flag and the element, for every element in element order
RECURSIVE ExpectedPerElement(_, _)
ExpectedPerElement(p, l) ==
    IF l = <<>> THEN <<>>
    ELSE <<p.Flag, ElementToken(p, Head(l))>> \o ExpectedPerElement(p, Tail(l))

\* C12: a non-positional array parameter with flag F and k elements appends
\* 2k tokens, F and then the element's rendering, once per element in element
\* order; a non-positional string or integer parameter whose field is set
\* appends F and then the rendering of its value.
C12_ArrayAndScalarFlags ==
    [][hpc = "flags" =>
          /\ hk <= Len(DeclaredFlagStyle(hfn.sub.Parameters))
          /\ LET p == DeclaredFlagStyle(hfn.sub.Parameters)[hk]
                 v == FieldValue(p)
             IN /\ p.Type = S_array =>
                      /\ cmd' = cmd \o ExpectedPerElement(p, v.l)
                      /\ Len(cmd') = Len(cmd) + 2 * Len(v.l)
                /\ (p.Type \in {S_string, S_integer} /\ ~IsZero(v)) =>
                      cmd' = cmd \o <<p.Flag, TokenOf(p)>>
      ]_vars

\* two integer elements, an empty array and a string flag
C12_Witness ==
    /\ hpc = "done"
    /\ hfn.sub.Parameters = <<P_ids, P_json, P_title>>
    /\ hargs[toTitle(S_ids)].l = <<IntValue(42), IntValue(0)>>
    /\ hargs[toTitle(S_json)].l = <<>>
    /\ cmd = <<S_ab, S_list, S_flagIds, <<"4","2">>, S_flagIds, <<"0">>, S_flagTitle, S_x>>

---------------------------------------------------------------------------
(* goType called on its own, on parameters of every declared type *)

S_unknown == <<"u","n","k","n","o","w","n">>
S_String == <<"S","t","r","i","n","g">>
S_object == <<"o","b","j","e","c","t">>

\* declared types: the five of the table, the empty string, other spellings
TypeNames ==
    {S_string, S_integer, S_boolean, S_array, S_map, S_empty, S_unknown, S_String,
     S_int, S_bool, S_number, S_object, S_list}

ItemTypeNames ==
    {S_empty, S_string, S_integer, S_boolean, S_int, S_map, S_array, S_unknown}

TypeInit ==
    /\ LoadIdle
    /\ GenIdle
    /\ CallIdle
    /\ MainIdle
    /\ ExecIdle
    /\ \E t \in TypeNames, it \in ItemTypeNames :
          fin = Param(S_name, t, it, S_empty, FALSE, FALSE)
    /\ fout = <<>>
    /\ fpc = "call"

\* goType(param)
CallGoType ==
    /\ fpc = "call"
    /\ fout' = goType(fin)
    /\ fpc' = "done"
    /\ UNCHANGED fin

TypeNext == CallGoType /\ UNCHANGED <<loadVars, genVars, callVars, mainVars, execVars>>

SpecType == TypeInit /\ [][TypeNext]_vars

\* the concrete representations of the mapping table
GoTypes ==
    {<<"s","t","r","i","n","g">>, <<"i","n","t">>, <<"b","o","o","l">>,
     <<"[","]","s","t","r","i","n","g">>, <<"[","]","i","n","t">>,
     <<"m","a","p","[","s","t","r","i","n","g","]","s","t","r","i","n","g">>}

\* C13: goType is total and follows the mapping table: string -> string,
\* integer -> int, boolean -> bool, array of string or of no item type ->
\* []string, array of integer -> []int, map -> map[string]string, any other
\* declared type, the empty one included, -> string.
C13_MappingTable ==
    fpc = "done" =>
        /\ fout \in GoTypes
        /\ fin.Type = S_string => fout = <<"s","t","r","i","n","g">>
        /\ fin.Type = S_integer => fout = <<"i","n","t">>
        /\ fin.Type = S_boolean => fout = <<"b","o","o","l">>
        /\ (fin.Type = S_array /\ fin.ItemType \in {S_empty, S_string}) =>
              fout = <<"[","]","s","t","r","i","n","g">>
        /\ (fin.Type = S_array /\ fin.ItemType = S_integer) =>
              fout = <<"[","]","i","n","t">>
        /\ fin.Type = S_map =>
              fout = <<"m","a","p","[","s","t","r","i","n","g","]","s","t","r","i","n","g">>
        /\ fin.Type \notin {S_string, S_integer, S_boolean, S_array, S_map} =>
              fout = <<"s","t","r","i","n","g">>

\* the empty type, with an item type that is ignored, falls back to string
C13_Witness ==
    /\ fpc = "done"
    /\ fin.Type = S_empty
    /\ fin.ItemType = S_integer
    /\ fout = <<"s","t","r","i","n","g">>

---------------------------------------------------------------------------
(* toTitle and toCamel called on their own *)

MaxChars == 3

\* the characters names are made of: a lower-case and an upper-case letter,
\* the two separators, and e-acute, whose encoding takes two bytes
NameChars == {<<"a">>, <<"B">>, <<"-">>, <<"_">>, <<"0xC3", "0xA9">>}

\* the strings of at most MaxChars characters, as the bytes Go sees
NameStrings == {Join(cs) : cs \in UNION {[1..n -> NameChars] : n \in 0..MaxChars}}

NamingInit ==
    /\ LoadIdle
    /\ GenIdle
    /\ CallIdle
    /\ MainIdle
    /\ ExecIdle
    /\ fin \in NameStrings
    /\ fout = <<>>
    /\ fpc = "call"

\* toTitle(s)
CallToTitle ==
    /\ fpc = "call"
    /\ fout' = [title |-> toTitle(fin)]
    /\ fpc' = "titled"
    /\ UNCHANGED fin

\* toTitle(toTitle(s))
CallToTitleAgain ==
    /\ fpc = "titled"
    /\ fout' = [title |-> fout.title, again |-> toTitle(fout.title)]
    /\ fpc' = "retitled"
    /\ UNCHANGED fin

\* toCamel(s)
CallToCamel ==
    /\ fpc = "call"
    /\ fout' = [camel |-> toCamel(fin)]
    /\ fpc' = "cameled"
    /\ UNCHANGED fin

NamingNext ==
    \/ CallToTitle /\ UNCHANGED <<loadVars, genVars, callVars, mainVars, execVars>>
    \/ CallToTitleAgain /\ UNCHANGED <<loadVars, genVars, callVars, mainVars, execVars>>
    \/ CallToCamel /\ UNCHANGED <<loadVars, genVars, callVars, mainVars, execVars>>

SpecNaming == NamingInit /\ [][NamingNext]_vars

\* the characters of a string
RECURSIVE Chars(_)
Chars(b) ==
    IF b = <<>> THEN <<>>
    ELSE <<SubSeq(b, 1, RuneWidth(b))>> \o Chars(SubSeq(b, RuneWidth(b) + 1, Len(b)))

\* upper case and lower case of one character
UpperChar(c) ==
    IF Len(c) = 1 THEN <<ToUpper(c[1])>>
    ELSE IF c = <<"0xC3", "0xA9">> THEN <<"0xC3", "0x89">> ELSE c
LowerChar(c) ==
    IF Len(c) = 1 THEN <<ToLower(c[1])>>
    ELSE IF c = <<"0xC3", "0x89">> THEN <<"0xC3", "0xA9">> ELSE c

IsSeparatorChar(c) == c \in {<<"-">>, <<"_">>}

\* the segments between separators, the first character of each in upper
\* case and the rest as it is, concatenated
TitleOfChars(b) ==
    LET cs == Chars(b)
    IN Join(SelectSeq([i \in DOMAIN cs |->
                          IF i = 1 \/ IsSeparatorChar(cs[i - 1])
                          THEN UpperChar(cs[i]) ELSE cs[i]],
                      LAMBDA c : ~IsSeparatorChar(c)))

\* a string with its first character in lower case and the rest as it is
LowerFirstChar(b) ==
    IF b = <<>> THEN <<>>
    ELSE LowerChar(SubSeq(b, 1, RuneWidth(b))) \o SubSeq(b, RuneWidth(b) + 1, Len(b))

\* C14: toTitle splits on every '-' and '_', puts the first character of each
\* non-empty segment in upper case, leaves the rest of the segment as it is and
\* concatenates; the result holds no separator, and an input of separators
\* only, or the empty input, gives the empty string.
C14_AsStated ==
    fpc \in {"titled", "retitled"} =>
        /\ fout.title = TitleOfChars(fin)
        /\ \A i \in DOMAIN fout.title : fout.title[i] \notin {"-", "_"}
        /\ (\A i \in DOMAIN fin : fin[i] \in {"-", "_"}) => fout.title = <<>>

\* C15: toTitle(toTitle(s)) = toTitle(s) for every string s.
C15_AsStated == fpc = "retitled" => fout.again = fout.title

\* C16: toCamel(s) is toTitle(s) with its first character in lower case and
\* every other character the same; it is empty when toTitle(s) is empty.
C16_AsStated ==
    fpc = "cameled" =>
        /\ fout.camel = LowerFirstChar(toTitle(fin))
        /\ toTitle(fin) = <<>> => fout.camel = <<>>

---------------------------------------------------------------------------
(* main.go: the generator run as a program, once and then once more on the *)
(* same definitions directory                                               *)

MaxMainFiles == 2

\* the files main is run on: two definitions, an undecodable file, an
\* unreadable one, and a file that is no definition file
MainFileUniverse ==
    {[ext |-> "yaml", readable |-> TRUE, content |-> [syntaxOK |-> TRUE, root |-> DocPr]],
     [ext |-> "yaml", readable |-> TRUE, content |-> [syntaxOK |-> TRUE, root |-> DocIssue]],
     [ext |-> "yaml", readable |-> TRUE, content |-> [syntaxOK |-> TRUE, root |-> DocMismatch]],
     [ext |-> "yaml", readable |-> TRUE, content |-> [syntaxOK |-> TRUE, root |-> YNull]],
     [ext |-> "yaml", readable |-> FALSE, content |-> [syntaxOK |-> TRUE, root |-> DocPr]],
     [ext |-> "txt", readable |-> TRUE, content |-> [syntaxOK |-> FALSE, root |-> YNull]]}

MainDirUniverse ==
    {[exists |-> FALSE, entries |-> <<>>]}
    \cup {[exists |-> TRUE, entries |-> e] :
             e \in UNION {[S -> MainFileUniverse] : S \in SUBSET (1..MaxMainFiles)}}

\* one printed line: its fixed text and the number formatted into it
Line(text, n) == [text |-> text, n |-> n]

\* always 0: os.Exit(1) left out
ExitStatus_AlwaysZero(failed) == 0

\* os.Exit(1) after an error, the return from main otherwise
ExitStatus(failed) == IF failed THEN 1 ELSE 0

MainInit ==
    /\ CallIdle
    /\ FnIdle
    /\ ExecIdle
    /\ dir \in MainDirUniverse
    /\ lpc = "idle"
    /\ files = <<>>
    /\ idx = 1
    /\ definitions = <<>>
    /\ ret = NoReturn
    /\ \E d \in {[creatable |-> TRUE, before |-> EmptyDir],
                 [creatable |-> TRUE, before |-> StaleDir],
                 [creatable |-> FALSE, before |-> EmptyDir]} :
          outDir = d /\ fs = d.before
    /\ defsIn = <<>>
    /\ gpc = "idle"
    /\ gi = 1
    /\ gret = NoGenError
    /\ written = <<>>
    /\ warnings = <<>>
    /\ mpc = "resolve"
    /\ resolves \in {"ok", "definitions fail", "output fail"}
    /\ stdout = <<>>
    /\ stderr = <<>>
    /\ exit = 0
    /\ runs = 1
    /\ prev = NoPrev

\* main.go: filepath.Abs of the two paths, the two header lines, and the
\* call of ParseDefinitions
MainResolve ==
    /\ mpc = "resolve"
    /\ IF resolves = "ok"
       THEN /\ stdout' = stdout \o <<Line("Reading definitions from", 0),
                                     Line("Writing generated code to", 0)>>
            /\ lpc' = "start"
            /\ mpc' = "parse"
            /\ UNCHANGED <<stderr, exit>>
       ELSE /\ stderr' = Append(stderr,
                                Line(IF resolves = "definitions fail"
                                     THEN "Error resolving definitions directory"
                                     ELSE "Error resolving output directory", 0))
            /\ exit' = ExitStatus(TRUE)
            /\ mpc' = "exited"
            /\ UNCHANGED <<stdout, lpc>>
    /\ UNCHANGED <<dir, files, idx, definitions, ret, resolves, runs, prev>>
    /\ UNCHANGED <<genVars, callVars, fnVars, execVars>>

\* main.go: ParseDefinitions has returned; on success the summary is printed
\* and GenerateCode is called
MainParsed ==
    /\ mpc = "parse"
    /\ lpc = "done"
    /\ IF ret.err.isNil
       THEN /\ stdout' = stdout \o <<Line("Parsed", Len(ret.defs))>>
                            \o [k \in DOMAIN ret.defs |->
                                   Line("subcommands", Len(ret.defs[k].Subcommands))]
            /\ defsIn' = ret.defs
            /\ gpc' = "start"
            /\ mpc' = "generate"
            /\ UNCHANGED <<stderr, exit>>
       ELSE /\ stderr' = Append(stderr, Line("Error parsing definitions", 0))
            /\ exit' = ExitStatus(TRUE)
            /\ mpc' = "exited"
            /\ UNCHANGED <<stdout, defsIn, gpc>>
    /\ UNCHANGED <<outDir, fs, gi, gret, written, warnings, resolves, runs, prev>>
    /\ UNCHANGED <<loadVars, callVars, fnVars, execVars>>

\* main.go: GenerateCode has returned
MainGenerated ==
    /\ mpc = "generate"
    /\ gpc = "done"
    /\ IF gret.isNil
       THEN /\ stdout' = Append(stdout, Line("Code generation completed successfully!", 0))
            /\ UNCHANGED stderr
       ELSE /\ stderr' = Append(stderr, Line("Error generating code", 0))
            /\ UNCHANGED stdout
    /\ exit' = ExitStatus(~gret.isNil)
    /\ mpc' = "exited"
    /\ UNCHANGED <<resolves, runs, prev>>
    /\ UNCHANGED <<loadVars, genVars, callVars, fnVars, execVars>>

\* the tool started a second time after a successful run, on the same
\* definitions directory and the output directory as the first run left it
MainRunAgain ==
    /\ mpc = "exited"
    /\ exit = 0
    /\ runs = 1
    /\ prev' = [fs |-> fs, written |-> written]
    /\ runs' = 2
    /\ mpc' = "resolve"
    /\ stdout' = <<>>
    /\ stderr' = <<>>
    /\ lpc' = "idle"
    /\ files' = <<>>
    /\ idx' = 1
    /\ definitions' = <<>>
    /\ ret' = NoReturn
    /\ outDir' = [outDir EXCEPT !.before = fs]
    /\ defsIn' = <<>>
    /\ gpc' = "idle"
    /\ gi' = 1
    /\ gret' = NoGenError
    /\ written' = <<>>
    /\ warnings' = <<>>
    /\ UNCHANGED <<dir, fs, resolves, exit>>
    /\ UNCHANGED <<callVars, fnVars, execVars>>

MainNext ==
    \/ MainResolve
    \/ GlobFiles /\ UNCHANGED <<genVars, callVars, fnVars, mainVars, execVars>>
    \/ ParseNextFile /\ UNCHANGED <<genVars, callVars, fnVars, mainVars, execVars>>
    \/ ParseFileFails /\ UNCHANGED <<genVars, callVars, fnVars, mainVars, execVars>>
    \/ ReturnDefinitions /\ UNCHANGED <<genVars, callVars, fnVars, mainVars, execVars>>
    \/ MainParsed
    \/ MkdirAll /\ UNCHANGED <<loadVars, callVars, fnVars, mainVars, execVars>>
    \/ GenerateCommandFile /\ UNCHANGED <<loadVars, callVars, fnVars, mainVars, execVars>>
    \/ GenerateRegistry /\ UNCHANGED <<loadVars, callVars, fnVars, mainVars, execVars>>
    \/ MainGenerated
    \/ MainRunAgain

SpecMain == MainInit /\ [][MainNext]_vars

---------------------------------------------------------------------------
(* Properties of the generator run as a program *)

SecondRunSucceeded == runs = 2 /\ mpc = "exited" /\ exit = 0

\* the writes of a run that no later write of the run went over
LastWrites == {k \in DOMAIN written : \A j \in (k + 1)..Len(written) : written[j].name # written[k].name}

LoadFailed == lpc = "done" /\ ~ret.err.isNil
SuccessLine == Line("Code generation completed successfully!", 0)
Printed(out, line) == \E i \in DOMAIN out : out[i] = line

\* C20: every failure in main (resolving a path, loading the definitions,
\* generating the code) is reported on standard error and ends the process
\* with a non-zero status; when loading fails GenerateCode is never called and
\* the output directory is not touched; the success line is printed only
\* when both phases succeeded.
C20_MainFailures ==
    /\ mpc = "exited" =>
          /\ (resolves # "ok" \/ LoadFailed \/ ~gret.isNil) <=> exit # 0
          /\ exit # 0 <=> stderr # <<>>
          /\ exit # 0 => ~Printed(stdout, SuccessLine)
    /\ mpc # "exited" => stderr = <<>>
    /\ (resolves # "ok" \/ LoadFailed) =>
          /\ gpc = "idle"
          /\ written = <<>>
          /\ fs = outDir.before
    /\ LoadFailed => (mpc = "exited" => Printed(stderr, Line("Error parsing definitions", 0)))
    /\ (mpc = "exited" /\ ~gret.isNil) => Printed(stderr, Line("Error generating code", 0))
    /\ Printed(stdout, SuccessLine) =>
          /\ lpc = "done" /\ ret.err.isNil
          /\ gpc = "done" /\ gret.isNil
          /\ mpc = "exited" /\ exit = 0

\* a definitions directory with an undecodable file next to a good one, and a
\* stale output directory that is left as it was
C20_Witness ==
    /\ mpc = "exited"
    /\ exit = 1
    /\ LoadFailed
    /\ Len(files) = 2
    /\ idx = 2
    /\ stderr = <<Line("Error parsing definitions", 0)>>
    /\ outDir.before = StaleDir
    /\ fs = StaleDir
    /\ gpc = "idle"

---------------------------------------------------------------------------
(* executor.go: the Executor that runs the gh command line *)

MaxCalls == 2

\* New: timeout: 5 * time.Minute
DefaultTimeout == 5

\* the durations SetTimeout is called with, in minutes
TimeoutValues == {0, 1, 2}

S_secret == <<"s","e","c","r","e","t">>
S_variable == <<"v","a","r","i","a","b","l","e">>
S_set == <<"s","e","t">>
S_bodyFlag == <<"-","-","b","o","d","y">>
S_redacted == <<"[","R","E","D","A","C","T","E","D","]">>
S_version == <<"-","-","v","e","r","s","i","o","n">>
S_KEY == <<"K","E","Y">>
S_hunter2 == <<"h","u","n","t","e","r","2">>
S_space == <<" ">>

\* strings.Join(elems, sep)
RECURSIVE JoinWith(_, _)
JoinWith(elems, sep) ==
    IF elems = <<>> THEN <<>>
    ELSE IF Len(elems) = 1 THEN elems[1]
    ELSE elems[1] \o sep \o JoinWith(Tail(elems), sep)

\* the argument lists Execute is called with
ArgLists ==
    {<<S_version>>,
     <<S_secret, S_set, S_KEY, S_bodyFlag, S_hunter2>>,
     <<S_variable, S_set, S_KEY, S_bodyFlag>>,
     <<S_issue, S_create, S_bodyFlag, S_hunter2>>}

\* context.WithTimeout(ctx, e.timeout): a deadline that is not in the
\* future has fired at once
WithTimeout(parentCancelled, d) == [cancelled |-> parentCancelled, deadline |-> d, fired |-> d <= 0]

\* ctx.Done() is closed
Done(c) == c.cancelled \/ c.fired

\* the gh process as cmd.Run leaves it; a process that did not start has no
\* ProcessState, a killed one has ExitCode() = -1
NotStarted == [state |-> "not started", exit |-> 0, stdout |-> "", stderr |-> ""]
Running == [state |-> "running", exit |-> 0, stdout |-> "", stderr |-> ""]
Killed == [state |-> "killed", exit |-> 0 - 1, stdout |-> "partial", stderr |-> ""]
Exited(run) == [state |-> "exited", exit |-> run.exit, stdout |-> run.stdout, stderr |-> run.stderr]

KillIfDone_Never(c, p) == p

\* exec.CommandContext: the process is killed when the context becomes done
\* before the command completes on its own
KillIfDone(c, p) == IF Done(c) /\ p.state = "running" THEN Killed ELSE p

\* how cmd.Run went, as Execute reads it from cmd.ProcessState and the buffers
RunOf(p) == [started |-> p.state # "not started", exit |-> p.exit, stdout |-> p.stdout, stderr |-> p.stderr]

\* e.logger.Info / Error / Debug with "args", strings.Join(args, " ")
LogRecord(level, msg, a) == [level |-> level, msg |-> msg, args |-> JoinWith(a, S_space)]

ExecInit ==
    /\ LoadIdle
    /\ GenIdle
    /\ CallIdle
    /\ FnIdle
    /\ MainIdle
    /\ timeout = 0
    /\ xpc = "new"
    /\ xargs = <<>>
    /\ ctx = NoContext
    /\ clock = 0
    /\ proc = NoProcess
    /\ logger = <<>>
    /\ xret = NoResult
    /\ ncalls = 0

\* New: exec.LookPath("gh"), then the Executor with the default timeout
New ==
    /\ xpc = "new"
    /\ \E found \in BOOLEAN :
          IF found
          THEN xpc' = "ready" /\ timeout' = DefaultTimeout
          ELSE xpc' = "no gh" /\ timeout' = timeout
    /\ UNCHANGED <<xargs, ctx, clock, proc, logger, xret, ncalls>>

\* SetTimeout: e.timeout = timeout, at any time after New
SetTimeout ==
    /\ xpc \in {"ready", "running", "returned"}
    /\ \E d \in TimeoutValues : timeout' = d
    /\ UNCHANGED <<xpc, xargs, ctx, clock, proc, logger, xret, ncalls>>

\* Execute up to cmd.Run starting the process: the context is derived from
\* the caller's with e.timeout as it is now, the call is logged, and the
\* process starts unless the context is done already or the start fails
ExecuteBegin ==
    /\ xpc \in {"ready", "returned"}
    /\ ncalls < MaxCalls
    /\ \E a \in ArgLists, cancelled \in BOOLEAN, starts \in BOOLEAN :
          LET c == WithTimeout(cancelled, timeout)
          IN /\ xargs' = a
             /\ ctx' = c
             /\ logger' = Append(logger, LogRecord("info", "executing gh command", a))
             /\ proc' = IF Done(c) \/ ~starts THEN NotStarted ELSE Running
    /\ clock' = 0
    /\ xret' = NoResult
    /\ xpc' = "running"
    /\ ncalls' = ncalls + 1
    /\ UNCHANGED timeout

\* a minute passes while Execute has not returned; the timer of the context
\* fires when the deadline is reached
Tick ==
    /\ xpc = "running"
    /\ clock < ctx.deadline
    /\ clock' = clock + 1
    /\ LET c == [ctx EXCEPT !.fired = clock + 1 >= ctx.deadline]
       IN ctx' = c /\ proc' = KillIfDone(c, proc)
    /\ UNCHANGED <<timeout, xpc, xargs, logger, xret, ncalls>>

\* the caller cancels the context it passed
CallerCancel ==
    /\ xpc = "running"
    /\ ~ctx.cancelled
    /\ LET c == [ctx EXCEPT !.cancelled = TRUE]
       IN ctx' = c /\ proc' = KillIfDone(c, proc)
    /\ UNCHANGED <<timeout, xpc, xargs, clock, logger, xret, ncalls>>

\* the gh process completes on its own
ProcessExits ==
    /\ xpc = "running"
    /\ proc.state = "running"
    /\ \E run \in {r \in RunUniverse : r.started /\ r.exit >= 0} : proc' = Exited(run)
    /\ UNCHANGED <<timeout, xpc, xargs, ctx, clock, logger, xret, ncalls>>

\* Execute from the return of cmd.Run on: the Result is built, the outcome
\* is logged, and (result, err) is returned
ExecuteReturn ==
    /\ xpc = "running"
    /\ proc.state \in {"not started", "exited", "killed"}
    /\ LET ex == Execute(xargs, RunOf(proc))
       IN /\ xret' = [isNil |-> FALSE, result |-> ex.result, err |-> ex.err]
          /\ logger' = Append(logger,
                IF ex.err.isNil
                THEN LogRecord("debug", "gh command succeeded", xargs)
                ELSE LogRecord("error", "gh command failed", xargs))
    /\ xpc' = "returned"
    /\ UNCHANGED <<timeout, xargs, ctx, clock, proc, ncalls>>

ExecNext ==
    \/ New /\ UNCHANGED <<loadVars, genVars, callVars, fnVars, mainVars>>
    \/ SetTimeout /\ UNCHANGED <<loadVars, genVars, callVars, fnVars, mainVars>>
    \/ ExecuteBegin /\ UNCHANGED <<loadVars, genVars, callVars, fnVars, mainVars>>
    \/ Tick /\ UNCHANGED <<loadVars, genVars, callVars, fnVars, mainVars>>
    \/ CallerCancel /\ UNCHANGED <<loadVars, genVars, callVars, fnVars, mainVars>>
    \/ ProcessExits /\ UNCHANGED <<loadVars, genVars, callVars, fnVars, mainVars>>
    \/ ExecuteReturn /\ UNCHANGED <<loadVars, genVars, callVars, fnVars, mainVars>>

\* time passes, and Execute goes on once cmd.Run has returned
SpecExec == ExecInit /\ [][ExecNext]_vars /\ WF_execVars(Tick) /\ WF_execVars(ExecuteReturn)

---------------------------------------------------------------------------
(* Properties of the Executor *)

Returned == xpc = "returned"
RanToSuccess == proc.state = "exited" /\ proc.exit = 0

Began == xpc # "running" /\ xpc' = "running"
InCall == xpc = "running" /\ xpc' \in {"running", "returned"}

\* what holds of a call in every state: the process does not run on once the
\* context is done, the clock of a call never passes its deadline, and a
\* call whose process was killed or never started returns an error next to
\* a non-nil Result
TimeoutEnforced ==
    /\ (xpc = "running" /\ proc.state = "running") => (~Done(ctx) /\ clock < ctx.deadline)
    /\ xpc \in {"running", "returned"} =>
          /\ clock <= ctx.deadline
          /\ ctx.fired <=> clock = ctx.deadline
    /\ (Returned /\ proc.state \in {"killed", "not started"}) => (~xret.err.isNil /\ ~xret.isNil)
    /\ (Returned /\ xret.err.isNil) => proc.state = "exited"

IsSensitive(a) == Len(a) >= 2 /\ a[1] \in {S_secret, S_variable} /\ a[2] = S_set
Redact(a) == [i \in DOMAIN a |-> IF i > 1 /\ a[i - 1] = S_bodyFlag THEN S_redacted ELSE a[i]]
sanitizeArgs(a) == JoinWith(IF IsSensitive(a) THEN Redact(a) ELSE a, S_space)

\* sub occurs in s
Contains(s, sub) == \E i \in 1..(Len(s) - Len(sub) + 1) : SubSeq(s, i, i + Len(sub) - 1) = sub

\* the value given to --body in a 'secret set' or 'variable set' call
BodyValues(a) == {a[i] : i \in {j \in DOMAIN a : j > 1 /\ IsSensitive(a) /\ a[j - 1] = S_bodyFlag}}

\* C23 as stated: what Execute logs as args is sanitizeArgs(args), so the
\* value given to --body of 'secret set' / 'variable set' is in no log record
\* of the call.
C23_AsStated ==
    xpc \in {"running", "returned"} =>
       /\ logger[Len(logger)].args = sanitizeArgs(xargs)
       /\ \A v \in BodyValues(xargs) : ~Contains(logger[Len(logger)].args, v)

---------------------------------------------------------------------------
(* Properties of the definitions between loader and generator *)

\* a name that can stand as a file name stem: not empty, no path separator
\* and no dot segment
IsFileStem(name) ==
    /\ name # <<>>
    /\ \A i \in DOMAIN name : name[i] \notin {"/", "\\"}
    /\ name \notin {<<".">>, <<".", ".">>}

\* C24 as stated: every definition that the loader returns and the generator
\* consumes has a non-empty, filesystem-safe name, so every command file is
\* <name>_gen.go with such a name.
C24_AsStated ==
    /\ (lpc = "done" /\ ret.err.isNil) => \A i \in DOMAIN ret.defs : IsFileStem(ret.defs[i].Command)
    /\ gpc # "idle" => \A i \in DOMAIN defsIn : IsFileStem(defsIn[i].Command)
    /\ \A k \in DOMAIN written :
          \/ written[k].name = RegistryFileName
          \/ \E stem \in {defsIn[i].Command : i \in DOMAIN defsIn} :
                IsFileStem(stem) /\ written[k].name = stem \o S_genGo

---------------------------------------------------------------------------
(* codegen.go: the struct tags of a parameter, called on two parameters    *)
(* that have name and description in common                                *)

S_quoted == <<"a","\"","b">>

TagDescriptions == {S_empty, S_quoted}
TagEnums == {<<>>, <<S_a, S_c>>}
TagTypes == {S_string, S_integer}

\* a parameter, and one that differs from it in Type, Required, Positional
\* and Enum at most
TagInputs ==
    {[a |-> [Param(n, S_string, S_empty, S_empty, FALSE, FALSE) EXCEPT !.Description = d],
      b |-> [Param(n, t, S_empty, S_empty, r, pos) EXCEPT !.Description = d, !.Enum = e]] :
        n \in NameStrings, d \in TagDescriptions, t \in TagTypes,
        r \in BOOLEAN, pos \in BOOLEAN, e \in TagEnums}

\* the definition list that declares one parameter
TagDefinitions(param) ==
    <<[Command |-> S_pr, Description |-> S_empty, Subcommands |-> <<Sub(S_list, <<param>>)>>]>>

\* what GenerateCode hands to os.WriteFile for a definition list
GeneratedFiles(defs) ==
    [commands |-> [i \in DOMAIN defs |-> generateCommandFileContent(defs[i])],
     registry |-> generateRegistryContent(defs)]

TagInit ==
    /\ LoadIdle
    /\ GenIdle
    /\ CallIdle
    /\ MainIdle
    /\ ExecIdle
    /\ fin \in TagInputs
    /\ fout = <<>>
    /\ fpc = "call"

\* toSnake(param.Name)
CallToSnake ==
    /\ fpc = "call"
    /\ fout' = [fn |-> "toSnake", a |-> toSnake(fin.a.Name), b |-> toSnake(fin.b.Name)]
    /\ fpc' = "snaked"
    /\ UNCHANGED fin

\* toSnake(toSnake(param.Name))
CallToSnakeAgain ==
    /\ fpc = "snaked"
    /\ fout' = [fn |-> "toSnake twice", a |-> fout.a, b |-> fout.b, again |-> toSnake(fout.a)]
    /\ fpc' = "done"
    /\ UNCHANGED fin

\* jsonTag(param)
CallJsonTag ==
    /\ fpc = "call"
    /\ fout' = [fn |-> "jsonTag", a |-> jsonTag(fin.a), b |-> jsonTag(fin.b)]
    /\ fpc' = "done"
    /\ UNCHANGED fin

\* schemaTag(param)
CallSchemaTag ==
    /\ fpc = "call"
    /\ fout' = [fn |-> "schemaTag", a |-> schemaTag(fin.a), b |-> schemaTag(fin.b)]
    /\ fpc' = "done"
    /\ UNCHANGED fin

\* GenerateCode on the definition list of either parameter
CallGenerateCode ==
    /\ fpc = "call"
    /\ fout' = [fn |-> "GenerateCode", a |-> GeneratedFiles(TagDefinitions(fin.a)),
                b |-> GeneratedFiles(TagDefinitions(fin.b))]
    /\ fpc' = "done"
    /\ UNCHANGED fin

TagNext ==
    \/ CallToSnake /\ UNCHANGED <<loadVars, genVars, callVars, mainVars, execVars>>
    \/ CallToSnakeAgain /\ UNCHANGED <<loadVars, genVars, callVars, mainVars, execVars>>
    \/ CallJsonTag /\ UNCHANGED <<loadVars, genVars, callVars, mainVars, execVars>>
    \/ CallSchemaTag /\ UNCHANGED <<loadVars, genVars, callVars, mainVars, execVars>>
    \/ CallGenerateCode /\ UNCHANGED <<loadVars, genVars, callVars, mainVars, execVars>>

SpecTags == TagInit /\ [][TagNext]_vars

EnumOnly == fin.a = [fin.b EXCEPT !.Enum = fin.a.Enum]

\* C25: enum is advisory: two parameters that differ only in their enum
\* values get the same json tag and the same jsonschema tag, and the
\* definition lists that declare them generate the same files.
C25_EnumIgnored ==
    (fpc = "done" /\ EnumOnly /\ fout.fn \in {"jsonTag", "schemaTag", "GenerateCode"}) =>
        fout.a = fout.b

\* a described parameter with and without enum values, files generated
C25_Witness ==
    /\ fpc = "done"
    /\ fout.fn = "GenerateCode"
    /\ EnumOnly
    /\ fin.a.Enum = <<>>
    /\ fin.b.Enum = <<S_a, S_c>>
    /\ fin.a.Description = S_quoted
    /\ fin.a.Name = <<"a", "-", "B">>
    /\ Len(fout.a.commands) = 1

\* s with every '-' made '_' and every other byte, '_' included, as it is
Snake(s, t) ==
    /\ Len(t) = Len(s)
    /\ \A i \in DOMAIN s : t[i] = (IF s[i] = "-" THEN "_" ELSE s[i])

---------------------------------------------------------------------------
(* codegen.go: the template functions that split a parameter list *)

\* the parameters a list is drawn from, two positional and two not
SplitParams == {P_name, P_value, P_force, P_limit}

\* parameter lists of at most MaxParams parameters, repetitions included
SplitLists == UNION {[1..n -> SplitParams] : n \in 0..MaxParams}

SplitInit ==
    /\ LoadIdle
    /\ GenIdle
    /\ CallIdle
    /\ MainIdle
    /\ ExecIdle
    /\ \E ps \in SplitLists : fin = Sub(S_list, ps)
    /\ fout = <<>>
    /\ fpc = "call"

\* positionalArgs(sub.Parameters)
CallPositionalArgs ==
    /\ fpc = "call"
    /\ fout' = [positionalArgs |-> positionalArgs(fin.Parameters)]
    /\ fpc' = "positional"
    /\ UNCHANGED fin

\* nonPositional(sub.Parameters)
CallNonPositional ==
    /\ fpc = "positional"
    /\ fout' = [positionalArgs |-> fout.positionalArgs,
                nonPositional |-> nonPositional(fin.Parameters)]
    /\ fpc' = "flags"
    /\ UNCHANGED fin

\* hasPositional(sub)
CallHasPositional ==
    /\ fpc = "flags"
    /\ fout' = [positionalArgs |-> fout.positionalArgs,
                nonPositional |-> fout.nonPositional,
                hasPositional |-> hasPositional(fin)]
    /\ fpc' = "done"
    /\ UNCHANGED fin

SplitNext ==
    \/ CallPositionalArgs /\ UNCHANGED <<loadVars, genVars, callVars, mainVars, execVars>>
    \/ CallNonPositional /\ UNCHANGED <<loadVars, genVars, callVars, mainVars, execVars>>
    \/ CallHasPositional /\ UNCHANGED <<loadVars, genVars, callVars, mainVars, execVars>>

SpecSplit == SplitInit /\ [][SplitNext]_vars

\* the k-th smallest element of a set of indices
NthIndex(S, k) == CHOOSE i \in S : Cardinality({j \in S : j < i}) = k - 1

\* out is the list of the elements of params at the indices S, in order
Selects(params, S, out) ==
    /\ Len(out) = Cardinality(S)
    /\ \A k \in DOMAIN out : out[k] = params[NthIndex(S, k)]

\* C27: positionalArgs returns exactly the parameters with Positional = true
\* and nonPositional exactly those with Positional = false, each in the
\* original relative order; every parameter is in exactly one of the two
\* results and their lengths sum to the length of the input; hasPositional
\* is true exactly when positionalArgs is non-empty.
C27_Partition ==
    fpc = "done" =>
        LET params == fin.Parameters
            pos == {i \in DOMAIN params : params[i].Positional}
        IN /\ Selects(params, pos, fout.positionalArgs)
           /\ Selects(params, DOMAIN params \ pos, fout.nonPositional)
           /\ Len(fout.positionalArgs) + Len(fout.nonPositional) = Len(params)
           /\ \A k \in DOMAIN fout.positionalArgs : fout.positionalArgs[k].Positional
           /\ \A k \in DOMAIN fout.nonPositional : ~fout.nonPositional[k].Positional
           /\ fout.hasPositional <=> fout.positionalArgs # <<>>

\* a flag, a positional and another positional parameter, in this order
C27_Witness ==
    /\ fpc = "done"
    /\ fin.Parameters = <<P_force, P_value, P_name>>
    /\ fout.positionalArgs = <<P_value, P_name>>
    /\ fout.nonPositional = <<P_force>>
    /\ fout.hasPositional

============================================================================
